---------------------------- MODULE Spec2Model ----------------------------
(***************************************************************************)
(* A model of the mal-rust interpreter core (tbcardoso/mal-rust, step 7):  *)
(* the environment (src/rust/src/env.rs), the evaluator with its           *)
(* trampolined tail calls (src/rust/src/bin/step7_quote.rs) and the part   *)
(* of the built-in namespace the evaluator needs (src/rust/src/core.rs).   *)
(*                                                                         *)
(* Environments live in a heap `envs`: a sequence of records, an           *)
(* environment being its index (the Rc pointer of the code); 0 is "no      *)
(* outer environment".  Atoms live in a heap `atoms` in the same way: an    *)
(* Atom value is the index of its cell (the Rc<.. RefCell ..> of the       *)
(* code).  Values are records of one shape, so that any two can be         *)
(* compared.                                                               *)
(***************************************************************************)
EXTENDS Integers, Sequences, FiniteSets, TLC

VARIABLES
    envs,      \* the heap of environments: Seq([data, outer])
    atoms,     \* the heap of atom cells: atoms[i] is the content of atom i
    written,   \* history: written[e][k] is the value last passed to set(e, k, _)
    last,      \* the last operation performed and what it returned
    line,      \* the line evaluated last, as read
    halted     \* TRUE once the process has aborted (a Rust panic)

vars == <<envs, atoms, written, last, line, halted>>

(***************************************************************************)
(* Bounds of the model.                                                    *)
(***************************************************************************)
MaxEnvs == 3        \* environments created in the environment-API model
MaxBinds == 3       \* longest parameter list given to with_binds
MaxExprs == 3       \* longest argument list given to with_binds

(***************************************************************************)
(* Values: MalValueType.  t is the variant, n a number (or the index of    *)
(* an environment or of an atom cell), s a text, l the elements.           *)
(***************************************************************************)
MV(t, n, s, l) == [t |-> t, n |-> n, s |-> s, l |-> l]

Nil == MV("Nil", 0, "", <<>>)
True == MV("True", 0, "", <<>>)
False == MV("False", 0, "", <<>>)
Number(n) == MV("Number", n, "", <<>>)
Symbol(s) == MV("Symbol", 0, s, <<>>)
Str(s) == MV("Str", 0, s, <<>>)
Keyword(s) == MV("Keyword", 0, s, <<>>)
List(l) == MV("List", 0, "", l)
Vector(l) == MV("Vector", 0, "", l)
\* Map(MalMap): l = <<key, value, key, value, ...>>, each key once, a Str
\* or a Keyword (the text with its "s" or "k" prefix of the code).
Map(l) == MV("Map", 0, "", l)
\* Atom(RefCell<MalValue>): n is the cell.
Atom(cell) == MV("Atom", cell, "", <<>>)

\* RustFunction { func, env }: s names the function pointer, n is env.
RustFunc(name, env) == MV("RustFunc", env, name, <<>>)

\* MalFunction { body, parameters, outer_env }: l = <<List of parameter
\* names as Str, body>>, n is outer_env.
MalFunc(body, parameters, outer_env) ==
    MV("MalFunc", outer_env, "", <<List([i \in 1..Len(parameters) |-> Str(parameters[i])]), body>>)

FuncBody(f) == f.l[2]
FuncParameters(f) == [i \in 1..Len(f.l[1].l) |-> f.l[1].l[i].s]

new_boolean(b) == IF b THEN True ELSE False

(***************************************************************************)
(* MalError.  A Rust panic (which aborts the process) is modelled as one   *)
(* more kind, "Panic".                                                     *)
(***************************************************************************)
UndefinedSymbol(s) == MV("UndefinedSymbol", 0, s, <<>>)
Evaluation(msg) == MV("Evaluation", 0, msg, <<>>)
SpecialForm(msg) == MV("SpecialForm", 0, msg, <<>>)
RustFunctionError(msg) == MV("RustFunction", 0, msg, <<>>)
Exception(v) == MV("Exception", 0, "", <<v>>)
Panic(msg) == MV("Panic", 0, msg, <<>>)
EmptyProgram == MV("EmptyProgram", 0, "", <<>>)
Tokenizer(msg) == MV("Tokenizer", 0, msg, <<>>)
Parser(msg) == MV("Parser", 0, msg, <<>>)

\* MalResult = Result<MalValue, MalError>
Ok(v) == [ok |-> TRUE, val |-> v]
Err(e) == [ok |-> FALSE, val |-> e]

(***************************************************************************)
(* Env (env.rs).                                                           *)
(***************************************************************************)
NoData == [k \in {} |-> Nil]

\* create_env: a new EnvImpl with an empty table; the new environment is
\* the last of the heap.
create_env(h, outer) == Append(h, [data |-> NoData, outer |-> outer])

MutSetRoot(h, e, symbol_key, val) ==
    [h EXCEPT ![1].data = (symbol_key :> val) @@ @]

\* Env::set: insert into this environment's own table.
EnvSet(h, e, symbol_key, val) ==
    [h EXCEPT ![e].data = (symbol_key :> val) @@ @]

MutFindOwn(h, e, symbol_key) ==
    IF symbol_key \in DOMAIN h[e].data THEN e ELSE 0

\* Env::find: this environment if it has the key, else the outer's find.
RECURSIVE EnvFind(_, _, _)
EnvFind(h, e, symbol_key) ==
    IF symbol_key \in DOMAIN h[e].data
    THEN e
    ELSE IF h[e].outer # 0
         THEN EnvFind(h, h[e].outer, symbol_key)
         ELSE 0

\* Env::get
EnvGet(h, e, symbol_key) ==
    LET found == EnvFind(h, e, symbol_key)
    IN  IF found # 0
        THEN Ok(h[found].data[symbol_key])
        ELSE Err(UndefinedSymbol(symbol_key))

\* exprs[i..] of with_binds (i counted from 0, at most Len(exprs)).
SliceFrom(exprs, i) == SubSeq(exprs, i + 1, Len(exprs))

MutBoundValueNext(exprs, i) == IF i + 1 < Len(exprs) THEN exprs[i + 2] ELSE Nil

\* exprs.get(i).cloned().unwrap_or_else(MalValue::nil), i counted from 0.
BoundValue(exprs, i) == IF i < Len(exprs) THEN exprs[i + 1] ELSE Nil

\* The loop of Env::with_binds from index i (counted from 0) on, on the new
\* environment e.  exprs[i..] panics when i exceeds the length of exprs.
RECURSIVE WithBindsLoop(_, _, _, _, _)

MutLoopAmpLastIgnored(h, e, binds, exprs, i) ==
    IF i >= Len(binds) \/ (binds[i + 1] = "&" /\ Len(binds) <= i + 1)
    THEN [ok |-> TRUE, env |-> e, envs |-> h, err |-> Nil]
    ELSE IF binds[i + 1] = "&"
         THEN IF i > Len(exprs)
              THEN [ok |-> FALSE, env |-> 0, envs |-> h,
                    err |-> Panic("range start index out of range for slice")]
              ELSE [ok |-> TRUE, env |-> e,
                    envs |-> EnvSet(h, e, binds[i + 2], List(SliceFrom(exprs, i))),
                    err |-> Nil]
         ELSE WithBindsLoop(EnvSet(h, e, binds[i + 1], BoundValue(exprs, i)),
                            e, binds, exprs, i + 1)

WithBindsLoop(h, e, binds, exprs, i) ==
    IF i >= Len(binds)
    THEN [ok |-> TRUE, env |-> e, envs |-> h, err |-> Nil]
    ELSE IF binds[i + 1] = "&"
         THEN IF Len(binds) <= i + 1
              THEN [ok |-> FALSE, env |-> 0, envs |-> h,
                    err |-> Evaluation("Error in argument binding: no parameter after '&'")]
              ELSE IF i > Len(exprs)
                   THEN [ok |-> FALSE, env |-> 0, envs |-> h,
                         err |-> Panic("range start index out of range for slice")]
                   ELSE [ok |-> TRUE, env |-> e,
                         envs |-> EnvSet(h, e, binds[i + 2], List(SliceFrom(exprs, i))),
                         err |-> Nil]
         ELSE WithBindsLoop(EnvSet(h, e, binds[i + 1], BoundValue(exprs, i)),
                            e, binds, exprs, i + 1)

\* Env::with_binds.  When it fails the new environment is dropped.
WithBinds(h, outer, binds, exprs) ==
    LET r == WithBindsLoop(create_env(h, outer), Len(h) + 1, binds, exprs, 0)
    IN  IF r.ok THEN r ELSE [r EXCEPT !.envs = h]


(***************************************************************************)
(* The evaluator (step7_quote.rs).  An evaluation threads the interpreter  *)
(* state st = [envs, atoms, order, depth, log]: the two heaps, the order   *)
(* in which this run walks a HashMap it compares, the largest number of    *)
(* eval invocations active at once so far, and the with_binds calls made   *)
(* so far (a history, read by the properties only).  A failure             *)
(* keeps the state reached: nothing is rolled back.  The parameter d of    *)
(* every operator is the number of eval invocations active.                *)
(***************************************************************************)
StackLimit == 6     \* eval invocations the host stack holds before it overflows

St(h, cells, order) ==
    [envs |-> h, atoms |-> cells, order |-> order, depth |-> 0, log |-> <<>>]

\* MalResult with the state reached
Res(ok, val, st) == [ok |-> ok, val |-> val, st |-> st]

\* ApplyResult = Result<ApplyOkResult, MalError>
Return(mal_value, st) ==
    [ok |-> TRUE, tail |-> FALSE, val |-> mal_value, env |-> 0, st |-> st]
TailCall(mal_val, new_env, st) ==
    [ok |-> TRUE, tail |-> TRUE, val |-> mal_val, env |-> new_env, st |-> st]
Raise(mal_error, st) ==
    [ok |-> FALSE, tail |-> FALSE, val |-> mal_error, env |-> 0, st |-> st]

Max(a, b) == IF a >= b THEN a ELSE b
Rest(seq) == SubSeq(seq, 2, Len(seq))

SpecialForms == {"def!", "let*", "fn*", "do", "if", "quote"}

\* core.rs: arg_count_eq, get_number_arg and the binary number functions.
ArgCountEq(args, expected) == Len(args) = expected

NumberArgs(args) ==
    /\ ArgCountEq(args, 2)
    /\ args[1].t = "Number"
    /\ args[2].t = "Number"

NumberArgsError(args) ==
    IF ~ArgCountEq(args, 2)
    THEN RustFunctionError("Expected 2 arguments")
    ELSE RustFunctionError("Argument must be a number")

add(args) ==
    IF NumberArgs(args) THEN Ok(Number(args[1].n + args[2].n)) ELSE Err(NumberArgsError(args))

subtract(args) ==
    IF NumberArgs(args) THEN Ok(Number(args[1].n - args[2].n)) ELSE Err(NumberArgsError(args))

lt(args) ==
    IF NumberArgs(args) THEN Ok(new_boolean(args[1].n < args[2].n)) ELSE Err(NumberArgsError(args))

list(args) == Ok(List(args))

\* throw: arg_count_gte(args, 1)?; Err(MalError::Exception(args[0].clone()))
throw(args) ==
    IF Len(args) < 1
    THEN Err(RustFunctionError("Expected at least 1 argument"))
    ELSE Err(Exception(args[1]))

(***************************************************************************)
(* Equality: impl PartialEq for MalValueType, and the derived PartialEq of *)
(* MalValue, Vec, MalMap (HashMap), RustFunction, MalFunction, Env and     *)
(* EnvImpl.  Rc<T> compares the pointees (T is not Eq, so there is no      *)
(* pointer shortcut).  A comparison is a set of possible outcomes:         *)
(* "true", "false", or "overflow" when the recursion never ends (it        *)
(* compares a pair of environments it is already comparing) and the host   *)
(* stack overflows.  A HashMap is compared entry by entry in its iteration *)
(* order, which is not fixed, and stops at the first unequal entry: when   *)
(* one entry is unequal and another never ends, both outcomes are          *)
(* possible.                                                               *)
(***************************************************************************)
\* l && r where r is only evaluated when l is true
AndThen(l, r) == (l \ {"true"}) \cup (IF "true" \in l THEN r ELSE {})

\* The outcomes of iter().all(..) over entries compared in any order.
AllAnyOrder(outcomes) ==
    (UNION outcomes \ {"true"})
        \cup (IF \A o \in outcomes : "true" \in o THEN {"true"} ELSE {})

\* The value of key in the map entries l (other.get(k)), Nil standing for
\* a missing key only where the caller has checked that it is there.
MapKeys(l) == {l[2 * j - 1] : j \in 1..(Len(l) \div 2)}
MapGet(l, key) ==
    IF key \in MapKeys(l)
    THEN l[2 * (CHOOSE j \in 1..(Len(l) \div 2) : l[2 * j - 1] = key)]
    ELSE Nil

\* map.insert(MalMapKey { key, .. }, value): the value of a key already in
\* the map is replaced, a new key is added.
MapInsert(l, key, value) ==
    IF key \in MapKeys(l)
    THEN [l EXCEPT ![2 * (CHOOSE j \in 1..(Len(l) \div 2) : l[2 * j - 1] = key)] = value]
    ELSE l \o <<key, value>>

RECURSIVE extend_map_from_arguments(_, _, _)

MutExtendAnyKey(l, arguments, i) ==
    IF i > Len(arguments)
    THEN Ok(Map(l))
    ELSE extend_map_from_arguments(MapInsert(l, arguments[i], arguments[i + 1]),
                                   arguments, i + 2)

\* MalMap::extend_map_from_arguments, from argument i (counted from 1) on.
extend_map_from_arguments(l, arguments, i) ==
    IF i > Len(arguments)
    THEN Ok(Map(l))
    ELSE IF arguments[i].t \notin {"Str", "Keyword"}
         THEN Err(Parser("hash map keys must be strings or keywords"))
         ELSE extend_map_from_arguments(MapInsert(l, arguments[i], arguments[i + 1]),
                                        arguments, i + 2)

\* MalMap::from_arguments
from_arguments(arguments) ==
    IF Len(arguments) % 2 # 0
    THEN Err(Parser("hash map must have an even number of arguments"))
    ELSE extend_map_from_arguments(<<>>, arguments, 1)

RECURSIVE MalEq(_, _, _, _)
RECURSIVE SeqEqFrom(_, _, _, _, _)
RECURSIVE EnvEq(_, _, _, _)

\* Vec<MalValue> == Vec<MalValue>, from element i on, left to right.
SeqEqFrom(l, r, i, h, visiting) ==
    IF i > Len(l)
    THEN {"true"}
    ELSE AndThen(MalEq(l[i], r[i], h, visiting), SeqEqFrom(l, r, i + 1, h, visiting))

\* Env == Env: EnvImpl { data, outer }, data first.
EnvEq(l, r, h, visiting) ==
    IF <<l, r>> \in visiting
    THEN {"overflow"}
    ELSE AndThen(
           IF DOMAIN h[l].data # DOMAIN h[r].data
           THEN {"false"}
           ELSE AllAnyOrder({MalEq(h[l].data[k], h[r].data[k], h, visiting \cup {<<l, r>>})
                               : k \in DOMAIN h[l].data}),
           IF h[l].outer = 0 \/ h[r].outer = 0
           THEN {IF h[l].outer = h[r].outer THEN "true" ELSE "false"}
           ELSE EnvEq(h[l].outer, h[r].outer, h, visiting \cup {<<l, r>>}))

MalEq(l, r, h, visiting) ==
    CASE l.t \in {"Nil", "True", "False"} /\ r.t = l.t -> {"true"}
      [] l.t = "Number" /\ r.t = "Number" -> {IF l.n = r.n THEN "true" ELSE "false"}
      [] l.t \in {"Symbol", "Str", "Keyword"} /\ r.t = l.t ->
            {IF l.s = r.s THEN "true" ELSE "false"}
      [] l.t \in {"List", "Vector"} /\ r.t \in {"List", "Vector"} ->
            IF Len(l.l) # Len(r.l) THEN {"false"} ELSE SeqEqFrom(l.l, r.l, 1, h, visiting)
      [] l.t = "Map" /\ r.t = "Map" ->
            IF MapKeys(l.l) # MapKeys(r.l)
            THEN {"false"}
            ELSE AllAnyOrder({MalEq(MapGet(l.l, k), MapGet(r.l, k), h, visiting)
                                : k \in MapKeys(l.l)})
      [] l.t = "RustFunc" /\ r.t = "RustFunc" ->
            AndThen({IF l.s = r.s THEN "true" ELSE "false"}, EnvEq(l.n, r.n, h, visiting))
      [] l.t = "MalFunc" /\ r.t = "MalFunc" ->
            AndThen(MalEq(l.l[2], r.l[2], h, visiting),
                    AndThen({IF l.l[1] = r.l[1] THEN "true" ELSE "false"},
                            EnvEq(l.n, r.n, h, visiting)))
      [] OTHER -> {"false"}

\* Two of the orders in which a run may walk its HashMaps.  Under order_a
\* a comparison meets an unequal entry before one that never ends and the
\* entries of a map literal are evaluated as stored; under order_b, the
\* other way round.
HashOrders == {"order_a", "order_b"}

\* The outcome of a comparison under a walk order.
Outcome(outcomes, order) ==
    IF Cardinality(outcomes) = 1
    THEN CHOOSE o \in outcomes : TRUE
    ELSE IF order = "order_a" /\ "false" \in outcomes
         THEN "false"
         ELSE IF "overflow" \in outcomes THEN "overflow" ELSE "false"

\* equals: Ok(new_boolean(args[0] == args[1]))
equals(args, h, order) ==
    IF ~ArgCountEq(args, 2)
    THEN Err(RustFunctionError("Expected 2 arguments"))
    ELSE IF Outcome(MalEq(args[1], args[2], h, {}), order) = "overflow"
         THEN Err(Panic("stack overflow"))
         ELSE Ok(new_boolean(Outcome(MalEq(args[1], args[2], h, {}), order) = "true"))

\* atom: a new cell holding args[0]
atom(args, st) ==
    IF ~ArgCountEq(args, 1)
    THEN Res(FALSE, RustFunctionError("Expected 1 argument"), st)
    ELSE Res(TRUE, Atom(Len(st.atoms) + 1), [st EXCEPT !.atoms = Append(@, args[1])])

\* deref_atom: val.borrow().clone()
deref_atom(args, cells) ==
    IF ~ArgCountEq(args, 1)
    THEN Err(RustFunctionError("Expected 1 argument"))
    ELSE IF args[1].t = "Atom"
         THEN Ok(cells[args[1].n])
         ELSE Err(RustFunctionError("Invalid argument. Expected atom."))

MutResetOnCopy(args, st) ==
    IF ~ArgCountEq(args, 2)
    THEN Res(FALSE, RustFunctionError("Expected 2 arguments"), st)
    ELSE IF args[1].t = "Atom"
         THEN Res(TRUE, args[2], [st EXCEPT !.atoms = Append(@, args[2])])
         ELSE Res(FALSE, RustFunctionError("Invalid argument. Expected atom."), st)

\* reset_atom: val.replace(args[1].clone()); Ok(args[1].clone())
reset_atom(args, st) ==
    IF ~ArgCountEq(args, 2)
    THEN Res(FALSE, RustFunctionError("Expected 2 arguments"), st)
    ELSE IF args[1].t = "Atom"
         THEN Res(TRUE, args[2], [st EXCEPT !.atoms[args[1].n] = args[2]])
         ELSE Res(FALSE, RustFunctionError("Invalid argument. Expected atom."), st)

\* MalValue::is_function (no MalFunc of this step is a macro)
is_function(v) == v.t \in {"RustFunc", "MalFunc"}

\* The functions of core::ns that the model implements.
CoreNames ==
    {"+", "-", "<", "list", "eval", "=", "atom", "deref", "reset!", "swap!", "throw"}

RECURSIVE eval(_, _, _, _)
RECURSIVE EvalLoop(_, _, _, _)
RECURSIVE eval_ast(_, _, _, _)
RECURSIVE EvalAstSeqFrom(_, _, _, _, _, _)
RECURSIVE apply_ast(_, _, _, _)
RECURSIVE apply_special_form_def(_, _, _, _)
RECURSIVE apply_special_form_let(_, _, _, _)
RECURSIVE LetLoop(_, _, _, _, _, _)
RECURSIVE apply_special_form_do(_, _, _, _)
RECURSIVE DoLoop(_, _, _, _, _)
RECURSIVE apply_special_form_if(_, _, _, _)
RECURSIVE mal_eval(_, _, _, _)
RECURSIVE CallRustFunc(_, _, _, _, _)
RECURSIVE core_apply(_, _, _, _)
RECURSIVE swap_atom(_, _, _, _)
RECURSIVE EvalMapFrom(_, _, _, _, _, _, _)

\* core_eval -> EVAL_FUNC = eval: one more eval invocation.
mal_eval(args, env, st, d) ==
    IF ~ArgCountEq(args, 1)
    THEN Res(FALSE, RustFunctionError("Expected 1 argument"), st)
    ELSE eval(args[1], env, st, d + 1)

\* The result of a function of core.rs that leaves the state alone.
Pure(r, st) == Res(r.ok, r.val, st)

\* What a call of Env::with_binds leaves in the history.
BindsLogged(function, args, b, st) ==
    [st EXCEPT !.log = Append(@, [outer |-> function.n,
                                  binds |-> FuncParameters(function),
                                  exprs |-> args,
                                  ok |-> b.ok, env |-> b.env, err |-> b.err])]

\* The MalFunc arm of core_apply, b being the result of Env::with_binds:
\* core_eval(&mal_func.body, &mut func_env), one more eval invocation.
CoreApplyMalFunc(b, function, args, st, d) ==
    IF b.ok
    THEN eval(FuncBody(function), b.env,
              [BindsLogged(function, args, b, st) EXCEPT !.envs = b.envs], d + 1)
    ELSE Res(FALSE, b.err, BindsLogged(function, args, b, st))

core_apply(function, args, st, d) ==
    CASE function.t = "RustFunc" -> CallRustFunc(function.s, args, function.n, st, d)
      [] function.t = "MalFunc" ->
            CoreApplyMalFunc(WithBinds(st.envs, function.n, FuncParameters(function), args),
                             function, args, st, d)
      [] OTHER -> Res(FALSE, RustFunctionError("Expected function."), st)

MutSwapKeepsContent(result, cell) == result

\* atom.replace(result.clone()); Ok(result), result being the value of
\* core_apply(..)?.
SwapStore(result, cell) ==
    IF result.ok
    THEN Res(TRUE, result.val, [result.st EXCEPT !.atoms[cell] = result.val])
    ELSE result

MutSwapTakesContent(args, env, st, d) ==
    IF Len(args) < 2
    THEN Res(FALSE, RustFunctionError("Expected at least 2 arguments"), st)
    ELSE IF args[1].t # "Atom"
         THEN Res(FALSE, RustFunctionError("Invalid 1st argument. Expected atom."), st)
         ELSE IF ~is_function(args[2])
              THEN Res(FALSE, RustFunctionError("Invalid 2nd argument. Expected function."), st)
              ELSE SwapStore(core_apply(args[2],
                                        <<st.atoms[args[1].n]>> \o SubSeq(args, 3, Len(args)),
                                        [st EXCEPT !.atoms[args[1].n] = Nil], d),
                             args[1].n)

swap_atom(args, env, st, d) ==
    IF Len(args) < 2
    THEN Res(FALSE, RustFunctionError("Expected at least 2 arguments"), st)
    ELSE IF args[1].t # "Atom"
         THEN Res(FALSE, RustFunctionError("Invalid 1st argument. Expected atom."), st)
         ELSE IF ~is_function(args[2])
              THEN Res(FALSE, RustFunctionError("Invalid 2nd argument. Expected function."), st)
              ELSE SwapStore(core_apply(args[2],
                                        <<st.atoms[args[1].n]>> \o SubSeq(args, 3, Len(args)),
                                        st, d),
                             args[1].n)

\* (rust_function.func)(args, env): the function named by the pointer.
CallRustFunc(name, args, env, st, d) ==
    CASE name = "+" -> Pure(add(args), st)
      [] name = "-" -> Pure(subtract(args), st)
      [] name = "<" -> Pure(lt(args), st)
      [] name = "list" -> Pure(list(args), st)
      [] name = "eval" -> mal_eval(args, env, st, d)
      [] name = "=" -> Pure(equals(args, st.envs, st.order), st)
      [] name = "atom" -> atom(args, st)
      [] name = "deref" -> Pure(deref_atom(args, st.atoms), st)
      [] name = "reset!" -> reset_atom(args, st)
      [] name = "swap!" -> swap_atom(args, env, st, d)
      [] name = "throw" -> Pure(throw(args), st)

\* eval_ast_seq: seq.iter().map(eval).collect(): left to right, the first
\* error ends it.  r is the result for element i (counted from 1).
EvalAstSeqStep(r, seq, i, acc, env, d) ==
    IF r.ok
    THEN EvalAstSeqFrom(seq, i + 1, Append(acc, r.val), env, r.st, d)
    ELSE r

MutSeqStepLeft(r, seq, i, acc, env, d) ==
    IF r.ok
    THEN EvalAstSeqFrom(seq, i + 1, <<r.val>> \o acc, env, r.st, d)
    ELSE r

MutSeqRightToLeft(seq, i, acc, env, st, d) ==
    IF i > Len(seq)
    THEN Res(TRUE, acc, st)
    ELSE MutSeqStepLeft(eval(seq[Len(seq) + 1 - i], env, st, d + 1), seq, i, acc, env, d)

EvalAstSeqFrom(seq, i, acc, env, st, d) ==
    IF i > Len(seq)
    THEN Res(TRUE, acc, st)
    ELSE EvalAstSeqStep(eval(seq[i], env, st, d + 1), seq, i, acc, env, d)

eval_ast_seq(seq, env, st, d) == EvalAstSeqFrom(seq, 1, <<>>, env, st, d)

\* Ok(MalValue::new(List(..?))) and Ok(MalValue::new(Vector(..?)))
Collected(t, r) == IF r.ok THEN Res(TRUE, MV(t, 0, "", r.val), r.st) ELSE r

\* The entries of a map in the order mal_map.iter() yields them.
MapWalk(l, order) ==
    [j \in 1..(Len(l) \div 2) |-> IF order = "order_a" THEN j ELSE (Len(l) \div 2) + 1 - j]

\* eval_map: the values are evaluated in the order of the walk, the first
\* error ends it.  r is the result for the value of entry walk[i].
EvalMapStep(r, l, walk, i, acc, env, d) ==
    IF r.ok
    THEN EvalMapFrom(l, walk, i + 1, [acc EXCEPT ![2 * walk[i]] = r.val], env, r.st, d)
    ELSE r

EvalMapFrom(l, walk, i, acc, env, st, d) ==
    IF i > Len(walk)
    THEN Pure(from_arguments(acc), st)
    ELSE EvalMapStep(eval(l[2 * walk[i]], env, st, d + 1), l, walk, i, acc, env, d)

eval_map(mal_map, env, st, d) ==
    EvalMapFrom(mal_map.l, MapWalk(mal_map.l, st.order), 1, mal_map.l, env, st, d)

eval_ast(ast, env, st, d) ==
    CASE ast.t = "Symbol" -> Pure(EnvGet(st.envs, env, ast.s), st)
      [] ast.t = "List" -> Collected("List", eval_ast_seq(ast.l, env, st, d))
      [] ast.t = "Vector" -> Collected("Vector", eval_ast_seq(ast.l, env, st, d))
      [] ast.t = "Map" -> eval_map(ast, env, st, d)
      [] OTHER -> Res(TRUE, ast, st)

MutCallerEnv(rust_function, env) == env

\* The environment a RustFunc is called with: rust_function.env.clone(),
\* not the environment of the call.
RustFuncEnv(rust_function, env) == rust_function.n

\* What apply_ast remembers of a with_binds call (history).
BindsEvent(outer, binds, exprs, r) ==
    [outer |-> outer, binds |-> binds, exprs |-> exprs,
     ok |-> r.ok, env |-> r.env, err |-> r.err]

\* Ok(Return(...?)) of the RustFunc arm of apply_ast.
ReturnOf(r) == IF r.ok THEN Return(r.val, r.st) ELSE Raise(r.val, r.st)

MutBodyByRecursion(b, mal_func, args, st, d) ==
    IF b.ok
    THEN ReturnOf(eval(FuncBody(mal_func), b.env,
                       [st EXCEPT !.envs = b.envs,
                                  !.log = Append(@, BindsEvent(mal_func.n, FuncParameters(mal_func), args, b))],
                       d + 1))
    ELSE Raise(b.err, [st EXCEPT !.log = Append(@, BindsEvent(mal_func.n, FuncParameters(mal_func), args, b))])

\* The MalFunc arm of apply_ast, b being the result of Env::with_binds.
ApplyMalFunc(b, mal_func, args, st, d) ==
    IF b.ok
    THEN TailCall(FuncBody(mal_func), b.env,
                  [st EXCEPT !.envs = b.envs,
                             !.log = Append(@, BindsEvent(mal_func.n, FuncParameters(mal_func), args, b))])
    ELSE Raise(b.err, [st EXCEPT !.log = Append(@, BindsEvent(mal_func.n, FuncParameters(mal_func), args, b))])

MutHeadValueReturned(ev, env, d) ==
    IF ~ev.ok
    THEN Raise(ev.val, ev.st)
    ELSE CASE ev.val.l[1].t = "RustFunc" ->
                ReturnOf(CallRustFunc(ev.val.l[1].s, Rest(ev.val.l),
                                      RustFuncEnv(ev.val.l[1], env), ev.st, d))
           [] ev.val.l[1].t = "MalFunc" ->
                ApplyMalFunc(WithBinds(ev.st.envs, ev.val.l[1].n,
                                       FuncParameters(ev.val.l[1]), Rest(ev.val.l)),
                             ev.val.l[1], Rest(ev.val.l), ev.st, d)
           [] OTHER -> Return(ev.val.l[1], ev.st)

\* apply_ast once the list is evaluated (ev).
ApplyEvaluated(ev, env, d) ==
    IF ~ev.ok
    THEN Raise(ev.val, ev.st)
    ELSE CASE ev.val.l[1].t = "RustFunc" ->
                ReturnOf(CallRustFunc(ev.val.l[1].s, Rest(ev.val.l),
                                      RustFuncEnv(ev.val.l[1], env), ev.st, d))
           [] ev.val.l[1].t = "MalFunc" ->
                ApplyMalFunc(WithBinds(ev.st.envs, ev.val.l[1].n,
                                       FuncParameters(ev.val.l[1]), Rest(ev.val.l)),
                             ev.val.l[1], Rest(ev.val.l), ev.st, d)
           [] OTHER ->
                Raise(Evaluation("First element of a list must evaluate to a function."),
                      ev.st)

apply_ast(ast, env, st, d) == ApplyEvaluated(eval_ast(ast, env, st, d), env, d)

MutDefReturnOnly(arg2, arg1, env) ==
    IF ~arg2.ok
    THEN Raise(arg2.val, arg2.st)
    ELSE Return(arg2.val, arg2.st)

\* env.set(arg1, arg2.clone()); Ok(Return(arg2)), arg2 being the result of
\* eval(&args[1], env)?.
DefSet(arg2, arg1, env) ==
    IF ~arg2.ok
    THEN Raise(arg2.val, arg2.st)
    ELSE Return(arg2.val, [arg2.st EXCEPT !.envs = EnvSet(@, env, arg1, arg2.val)])

MutDefBindsFirst(args, env, st, d) ==
    IF Len(args) # 2
    THEN Raise(SpecialForm("def! expected 2 arguments"), st)
    ELSE IF args[1].t # "Symbol"
         THEN Raise(SpecialForm("def! first argument must be a valid symbol name"), st)
         ELSE DefSet(eval(args[2], env,
                          [st EXCEPT !.envs = EnvSet(@, env, args[1].s, Nil)], d + 1),
                     args[1].s, env)

apply_special_form_def(args, env, st, d) ==
    IF Len(args) # 2
    THEN Raise(SpecialForm("def! expected 2 arguments"), st)
    ELSE IF args[1].t # "Symbol"
         THEN Raise(SpecialForm("def! first argument must be a valid symbol name"), st)
         ELSE DefSet(eval(args[2], env, st, d + 1), args[1].s, env)

\* inner_env.set(binding_name, binding_expr) and the rest of the loop.
LetSet(binding_expr, bindings, i, body, inner_env, d) ==
    IF ~binding_expr.ok
    THEN Raise(binding_expr.val, binding_expr.st)
    ELSE LetLoop(bindings, i + 2, body, inner_env,
                 [binding_expr.st EXCEPT
                    !.envs = EnvSet(@, inner_env, bindings[i + 1].s, binding_expr.val)],
                 d)

MutLetEvalInOuter(bindings, i, body, inner_env, st, d) ==
    IF i >= Len(bindings)
    THEN TailCall(body, inner_env, st)
    ELSE IF bindings[i + 1].t # "Symbol"
         THEN Raise(SpecialForm(
                  "let* odd numbered elements of binding list must be valid symbol names"), st)
         ELSE LetSet(eval(bindings[i + 2], st.envs[inner_env].outer, st, d + 1),
                     bindings, i, body, inner_env, d)

\* The for loop of apply_special_form_let; i is counted from 0.
LetLoop(bindings, i, body, inner_env, st, d) ==
    IF i >= Len(bindings)
    THEN TailCall(body, inner_env, st)
    ELSE IF bindings[i + 1].t # "Symbol"
         THEN Raise(SpecialForm(
                  "let* odd numbered elements of binding list must be valid symbol names"), st)
         ELSE LetSet(eval(bindings[i + 2], inner_env, st, d + 1),
                     bindings, i, body, inner_env, d)

apply_special_form_let(args, env, st, d) ==
    IF Len(args) # 2
    THEN Raise(SpecialForm("let* expected 2 arguments"), st)
    ELSE IF args[1].t \notin {"List", "Vector"}
         THEN Raise(SpecialForm("let* first argument must be a list or a vector"), st)
         ELSE IF Len(args[1].l) % 2 # 0
              THEN Raise(SpecialForm(
                       "let* bindings list must have an even number of elements"), st)
              ELSE LetLoop(args[1].l, 0, args[2], Len(st.envs) + 1,
                           [st EXCEPT !.envs = create_env(@, env)], d)

MutFnCapturesRoot(body, parameters, env) == MalFunc(body, parameters, 1)

\* MalFunction { body, parameters, outer_env: env.clone() }
Closure(body, parameters, env) == MalFunc(body, parameters, env)

apply_special_form_fn(args, env, st) ==
    IF Len(args) # 2
    THEN Raise(SpecialForm("fn* expected 2 arguments"), st)
    ELSE IF args[1].t \notin {"List", "Vector"}
         THEN Raise(SpecialForm("fn* first argument must be a list or a vector"), st)
         ELSE IF \E i \in 1..Len(args[1].l) : args[1].l[i].t # "Symbol"
              THEN Raise(SpecialForm(
                       "fn*! first argument must be a sequence of valid symbol names"), st)
              ELSE Return(Closure(args[2],
                                  [i \in 1..Len(args[1].l) |-> args[1].l[i].s],
                                  env),
                          st)

\* eval(expr, env)? of the loop of apply_special_form_do, and the rest of it.
DoStep(r, args, i, env, d) ==
    IF ~r.ok
    THEN Raise(r.val, r.st)
    ELSE DoLoop(args, i + 1, env, r.st, d)

MutDoLastOnly(args, i, env, st, d) == TailCall(args[Len(args)], env, st)

\* The for loop of apply_special_form_do over args[..len-1]; i from 1.
DoLoop(args, i, env, st, d) ==
    IF i >= Len(args)
    THEN TailCall(args[Len(args)], env, st)
    ELSE DoStep(eval(args[i], env, st, d + 1), args, i, env, d)

apply_special_form_do(args, env, st, d) ==
    IF Len(args) = 0
    THEN Return(Nil, st)
    ELSE DoLoop(args, 1, env, st, d)

MutIfZeroAndEmptyAreFalse(test_result, args, env) ==
    IF ~test_result.ok
    THEN Raise(test_result.val, test_result.st)
    ELSE IF test_result.val \in {False, Nil, Number(0), Str(""), List(<<>>), Vector(<<>>)}
         THEN IF Len(args) = 3
              THEN TailCall(args[3], env, test_result.st)
              ELSE Return(Nil, test_result.st)
         ELSE TailCall(args[2], env, test_result.st)

\* The match of apply_special_form_if on the value of the test.
IfBranch(test_result, args, env) ==
    IF ~test_result.ok
    THEN Raise(test_result.val, test_result.st)
    ELSE IF test_result.val.t \in {"False", "Nil"}
         THEN IF Len(args) = 3
              THEN TailCall(args[3], env, test_result.st)
              ELSE Return(Nil, test_result.st)
         ELSE TailCall(args[2], env, test_result.st)

apply_special_form_if(args, env, st, d) ==
    IF Len(args) < 2 \/ Len(args) > 3
    THEN Raise(SpecialForm("if expected 2 or 3 arguments"), st)
    ELSE IfBranch(eval(args[1], env, st, d + 1), args, env)

MutQuoteEvaluates(args, env, st) ==
    IF Len(args) # 1
    THEN Raise(SpecialForm("quote expects 1 argument"), st)
    ELSE TailCall(args[1], env, st)

apply_special_form_quote(args, env, st) ==
    IF Len(args) # 1
    THEN Raise(SpecialForm("quote expects 1 argument"), st)
    ELSE Return(args[1], st)

\* The head of a list when it is a symbol, else "".
HeadName(first_arg) == IF first_arg.t = "Symbol" THEN first_arg.s ELSE ""

\* match *first_arg.mal_type { ... } of eval
Dispatch(name, cur_ast, cur_env, st, d) ==
    CASE name = "def!" -> apply_special_form_def(Rest(cur_ast.l), cur_env, st, d)
      [] name = "let*" -> apply_special_form_let(Rest(cur_ast.l), cur_env, st, d)
      [] name = "fn*" -> apply_special_form_fn(Rest(cur_ast.l), cur_env, st)
      [] name = "do" -> apply_special_form_do(Rest(cur_ast.l), cur_env, st, d)
      [] name = "if" -> apply_special_form_if(Rest(cur_ast.l), cur_env, st, d)
      [] name = "quote" -> apply_special_form_quote(Rest(cur_ast.l), cur_env, st)
      [] OTHER -> apply_ast(cur_ast, cur_env, st, d)

\* match apply_result { Return(v) => return Ok(v), TailCall(ast, env) =>
\* next iteration of the loop }, after the ? on the error.
Trampoline(apply_result, d) ==
    IF ~apply_result.ok
    THEN Res(FALSE, apply_result.val, apply_result.st)
    ELSE IF apply_result.tail
         THEN EvalLoop(apply_result.val, apply_result.env, apply_result.st, d)
         ELSE Res(TRUE, apply_result.val, apply_result.st)

\* The loop of eval: one iteration, then the next on a TailCall.
EvalLoop(cur_ast, cur_env, st, d) ==
    IF cur_ast.t = "List"
    THEN IF Len(cur_ast.l) = 0
         THEN Res(TRUE, cur_ast, st)
         ELSE Trampoline(Dispatch(HeadName(cur_ast.l[1]), cur_ast, cur_env, st, d), d)
    ELSE eval_ast(cur_ast, cur_env, st, d)

\* eval: a new invocation, the d-th active one.  The host stack holds
\* StackLimit of them; one more overflows it and aborts the process.
eval(ast, env, st, d) ==
    IF d > StackLimit
    THEN Res(FALSE, Panic("stack overflow"), st)
    ELSE EvalLoop(ast, env, [st EXCEPT !.depth = Max(@, d)], d)

(***************************************************************************)
(* SpecEnv: the environment API used on its own, as the tests of env.rs    *)
(* do: one root environment, children made by with_outer_env and           *)
(* with_binds, and set and get on any of them.                             *)
(***************************************************************************)
EnvNames == {"a", "b"}
EnvVals == {Number(1), Number(2)}

InitEnv ==
    /\ envs = create_env(<<>>, 0)
    /\ atoms = <<>>
    /\ written = <<NoData>>
    /\ last = [op |-> "new", env |-> 1]
    /\ line = Nil
    /\ halted = FALSE

\* Env::with_outer_env(outer)
ApiWithOuterEnv(outer) ==
    /\ Len(envs) < MaxEnvs
    /\ envs' = create_env(envs, outer)
    /\ written' = Append(written, NoData)
    /\ last' = [op |-> "with_outer_env", env |-> Len(envs) + 1]
    /\ UNCHANGED <<atoms, line, halted>>

\* Env::with_binds(Some(outer), [k], [v])
ApiWithBinds(outer, k, v) ==
    /\ Len(envs) < MaxEnvs
    /\ LET r == WithBinds(envs, outer, <<k>>, <<v>>)
       IN  /\ r.ok
           /\ envs' = r.envs
           /\ written' = Append(written, k :> v)
           /\ last' = [op |-> "with_binds", env |-> r.env]
    /\ UNCHANGED <<atoms, line, halted>>

\* env.set(k, v)
ApiSet(e, k, v) ==
    /\ envs' = EnvSet(envs, e, k, v)
    /\ written' = [written EXCEPT ![e] = (k :> v) @@ @]
    /\ last' = [op |-> "set", env |-> e, key |-> k, val |-> v]
    /\ UNCHANGED <<atoms, line, halted>>

\* env.get(k)
ApiGet(e, k) ==
    /\ last' = [op |-> "get", env |-> e, key |-> k, res |-> EnvGet(envs, e, k)]
    /\ UNCHANGED <<envs, atoms, written, line, halted>>

NextEnv ==
    \/ \E outer \in 1..Len(envs) : ApiWithOuterEnv(outer)
    \/ \E outer \in 1..Len(envs), k \in EnvNames, v \in EnvVals : ApiWithBinds(outer, k, v)
    \/ \E e \in 1..Len(envs), k \in EnvNames, v \in EnvVals : ApiSet(e, k, v)
    \/ \E e \in 1..Len(envs), k \in EnvNames : ApiGet(e, k)

SpecEnv == InitEnv /\ [][NextEnv]_vars

\* The parent chain of e, e first (read off the outer pointers).
RECURSIVE Chain(_, _)
Chain(h, e) == IF e = 0 THEN <<>> ELSE <<e>> \o Chain(h, h[e].outer)

\* The positions of the chain of e whose environment was given a value for k.
Definers(e, k) ==
    {i \in 1..Len(Chain(envs, e)) : k \in DOMAIN written[Chain(envs, e)[i]]}

Nearest(e, k) ==
    Chain(envs, e)[CHOOSE i \in Definers(e, k) : \A j \in Definers(e, k) : i <= j]

\* C1: get(name) on E returns the value most recently set for name in the
\* nearest environment of E's parent chain (E first) that was given one, and
\* fails with UndefinedSymbol(name) when none on the chain was.
C1_GetNearestMostRecent ==
    last.op = "get" =>
        IF Definers(last.env, last.key) = {}
        THEN last.res = Err(UndefinedSymbol(last.key))
        ELSE last.res = Ok(written[Nearest(last.env, last.key)][last.key])

\* A get answered by a proper ancestor, two levels up, while the root holds
\* another value for the name: the chain is walked and the nearest wins.
C1_Witness ==
    /\ last.op = "get"
    /\ last.res.ok
    /\ Len(Chain(envs, last.env)) = 3
    /\ Nearest(last.env, last.key) = Chain(envs, last.env)[2]
    /\ last.key \in DOMAIN written[1]
    /\ written[1][last.key] # last.res.val

\* C2: set(name, value) on E changes E's own table only: every other
\* environment (ancestor, sibling, descendant) keeps exactly its bindings,
\* and no environment is created.
C2_SetChangesOnlyOwnTable ==
    [][last'.op = "set" =>
          /\ Len(envs') = Len(envs)
          /\ \A e \in 1..Len(envs) : e # last'.env => envs'[e] = envs[e]
          /\ envs'[last'.env].outer = envs[last'.env].outer
          /\ \A k \in DOMAIN envs[last'.env].data :
                k # last'.key => envs'[last'.env].data[k] = envs[last'.env].data[k]
          /\ envs'[last'.env].data[last'.key] = last'.val]_vars

\* A set on a child that hides the binding of its parent, with a sibling
\* made by with_binds that binds the same name.
C2_Witness ==
    /\ last.op = "set"
    /\ envs[last.env].outer # 0
    /\ last.key \in DOMAIN envs[envs[last.env].outer].data
    /\ envs[envs[last.env].outer].data[last.key] # last.val
    /\ \E s \in 1..Len(envs) :
          /\ s # last.env
          /\ envs[s].outer = envs[last.env].outer
          /\ last.key \in DOMAIN envs[s].data
          /\ envs[s].data[last.key] # last.val


(***************************************************************************)
(* The root environment and rep (step7_quote.rs).                          *)
(***************************************************************************)
\* (def! not (fn* (a) (if a false true)))
NotFunc == MalFunc(List(<<Symbol("if"), Symbol("a"), False, True>>), <<"a">>, 1)

\* (def! load-file (fn* (f) (eval (read-string (str "(do " (slurp f) ")")))))
LoadFileFunc ==
    MalFunc(List(<<Symbol("eval"),
                   List(<<Symbol("read-string"),
                          List(<<Symbol("str"), Str("(do "),
                                 List(<<Symbol("slurp"), Symbol("f")>>), Str(")")>>)>>)>>),
            <<"f">>, 1)

\* create_root_env: *ARGV*, the functions of core::ns (each a RustFunc that
\* holds the root environment) and the two functions defined in the language.
RootData ==
    [k \in CoreNames |-> RustFunc(k, 1)]
        @@ ("*ARGV*" :> List(<<>>))
        @@ ("not" :> NotFunc)
        @@ ("load-file" :> LoadFileFunc)

InitRoot ==
    /\ envs = <<[data |-> RootData, outer |-> 0]>>
    /\ atoms = <<>>
    /\ written = <<>>
    /\ last = [op |-> "start"]
    /\ line = Nil
    /\ halted = FALSE

(***************************************************************************)
(* Environments and atom cells are reference counted (Rc): one that        *)
(* nothing holds any more is dropped.  After a line the heaps keep what is *)
(* reachable from the root environment (first) and, after that, what only  *)
(* the result and the history of the line still name (rest); the others    *)
(* are removed and the indices closed up, the order kept within each of    *)
(* the two groups.  A reference is [k, i]: environment or atom cell i.     *)
(***************************************************************************)
EnvRef(e) == [k |-> "env", i |-> e]
AtomRef(cell) == [k |-> "atom", i |-> cell]

RECURSIVE RefsOf(_)
\* What a value holds: the env of a function, the cell of an atom, at any
\* depth of a list.
RefsOf(v) ==
    (CASE v.t \in {"MalFunc", "RustFunc"} -> {EnvRef(v.n)}
       [] v.t = "Atom" -> {AtomRef(v.n)}
       [] OTHER -> {})
        \cup UNION {RefsOf(v.l[i]) : i \in 1..Len(v.l)}

\* What environment or cell r holds: the outer and the values of an
\* environment, the content of a cell.
HeldBy(h, cells, r) ==
    IF r.k = "env"
    THEN (IF h[r.i].outer # 0 THEN {EnvRef(h[r.i].outer)} ELSE {})
            \cup UNION {RefsOf(h[r.i].data[k]) : k \in DOMAIN h[r.i].data}
    ELSE RefsOf(cells[r.i])

Grow(h, cells, S) == S \cup UNION {HeldBy(h, cells, r) : r \in S}

RECURSIVE Reachable(_, _, _)
Reachable(h, cells, S) ==
    IF Grow(h, cells, S) = S THEN S ELSE Reachable(h, cells, Grow(h, cells, S))

\* What the history of a line names.
LogRefs(log) ==
    UNION {{EnvRef(e) : e \in {log[i].outer, log[i].env} \ {0}}
               \cup UNION {RefsOf(log[i].exprs[j]) : j \in 1..Len(log[i].exprs)}
           : i \in 1..Len(log)}

\* The index of kept environment or cell r once the dropped ones are removed.
NewId(first, rest, r) ==
    IF r \in first
    THEN Cardinality({x \in first : x.k = r.k /\ x.i <= r.i})
    ELSE Cardinality({x \in first : x.k = r.k})
            + Cardinality({x \in rest : x.k = r.k /\ x.i <= r.i})

RECURSIVE Moved(_, _, _)
\* Value v with what it holds renamed.
Moved(v, first, rest) ==
    [v EXCEPT !.n = CASE v.t \in {"MalFunc", "RustFunc"} -> NewId(first, rest, EnvRef(v.n))
                      [] v.t = "Atom" -> NewId(first, rest, AtomRef(v.n))
                      [] OTHER -> v.n,
              !.l = [i \in 1..Len(v.l) |-> Moved(v.l[i], first, rest)]]

MovedEnv(env_impl, first, rest) ==
    [data |-> [k \in DOMAIN env_impl.data |-> Moved(env_impl.data[k], first, rest)],
     outer |-> IF env_impl.outer = 0 THEN 0 ELSE NewId(first, rest, EnvRef(env_impl.outer))]

\* The kept references of kind k.
Kept(first, rest, k) == {r \in first \cup rest : r.k = k}

Compact(h, first, rest) ==
    [j \in 1..Cardinality(Kept(first, rest, "env")) |->
        MovedEnv(h[(CHOOSE r \in Kept(first, rest, "env") : NewId(first, rest, r) = j).i],
                 first, rest)]

CompactAtoms(cells, first, rest) ==
    [j \in 1..Cardinality(Kept(first, rest, "atom")) |->
        Moved(cells[(CHOOSE r \in Kept(first, rest, "atom") : NewId(first, rest, r) = j).i],
              first, rest)]

MovedLog(log, first, rest) ==
    [i \in 1..Len(log) |->
        [log[i] EXCEPT !.outer = NewId(first, rest, EnvRef(@)),
                       !.env = IF @ = 0 THEN 0 ELSE NewId(first, rest, EnvRef(@)),
                       !.exprs = [j \in 1..Len(@) |-> Moved(@[j], first, rest)]]]

(***************************************************************************)
(* The printer (printer.rs).  heap = [atoms, order] holds the cells that   *)
(* Atom values point to and the order in which this run walks a HashMap.   *)
(* visiting is the set of cells whose content is being printed: printing   *)
(* an atom from inside its own content never ends, and the process dies of *)
(* stack overflow.                                                         *)
(***************************************************************************)
\* The loop of escape_string, from character i on.
RECURSIVE EscapeFrom(_, _)
EscapeFrom(text, i) ==
    IF i > Len(text)
    THEN ""
    ELSE (CASE SubSeq(text, i, i) = "\\" -> "\\\\"
            [] SubSeq(text, i, i) = "\n" -> "\\n"
            [] SubSeq(text, i, i) = "\"" -> "\\\""
            [] OTHER -> SubSeq(text, i, i)) \o EscapeFrom(text, i + 1)

escape_string(text) == "\"" \o EscapeFrom(text, 1) \o "\""

\* val.to_string() of a Number: the integer part and, when there is one,
\* the fraction.
NumberText(v) == IF v.s = "" THEN ToString(v.n) ELSE ToString(v.n) \o "." \o v.s

\* The keys and values of a map in the order of mal_map.iter().
MapArgsWalked(l, walk) ==
    [j \in 1..Len(l) |-> l[2 * walk[(j + 1) \div 2] - (j % 2)]]

RECURSIVE pr_str(_, _, _, _)
RECURSIVE PrSeqFrom(_, _, _, _, _, _)

\* elements.join(" "): r is the text of element i, acc that of those before.
PrSeqStep(r, elements, i, acc, print_readably, heap, visiting) ==
    IF r.ok
    THEN PrSeqFrom(elements, i + 1, (IF i = 1 THEN "" ELSE acc \o " ") \o r.val,
                   print_readably, heap, visiting)
    ELSE r

PrSeqFrom(elements, i, acc, print_readably, heap, visiting) ==
    IF i > Len(elements)
    THEN Ok(acc)
    ELSE PrSeqStep(pr_str(elements[i], print_readably, heap, visiting),
                   elements, i, acc, print_readably, heap, visiting)

\* format!("{}{}{}", start, .., end)
Enclosed(start, r, end) == IF r.ok THEN Ok(start \o r.val \o end) ELSE r

pr_seq(elements, start, end, print_readably, heap, visiting) ==
    Enclosed(start, PrSeqFrom(elements, 1, "", print_readably, heap, visiting), end)

pr_map(mal_map, print_readably, heap, visiting) ==
    pr_seq(MapArgsWalked(mal_map.l, MapWalk(mal_map.l, heap.order)), "{", "}",
           print_readably, heap, visiting)

\* The Atom arm of pr_str: format!("(atom {})", pr_str(&(*val.borrow()), ..))
PrAtom(mal_value, print_readably, heap, visiting) ==
    IF mal_value.n \in visiting
    THEN Err(Panic("pr_str: stack overflow"))
    ELSE Enclosed("(atom ",
                  pr_str(heap.atoms[mal_value.n], print_readably, heap,
                         visiting \cup {mal_value.n}),
                  ")")

pr_str(mal_value, print_readably, heap, visiting) ==
    CASE mal_value.t = "Nil" -> Ok("nil")
      [] mal_value.t = "True" -> Ok("true")
      [] mal_value.t = "False" -> Ok("false")
      [] mal_value.t = "Number" -> Ok(NumberText(mal_value))
      [] mal_value.t = "Symbol" -> Ok(mal_value.s)
      [] mal_value.t = "Str" ->
            Ok(IF print_readably THEN escape_string(mal_value.s) ELSE mal_value.s)
      [] mal_value.t = "Keyword" -> Ok(":" \o mal_value.s)
      [] mal_value.t = "List" -> pr_seq(mal_value.l, "(", ")", print_readably, heap, visiting)
      [] mal_value.t = "Vector" -> pr_seq(mal_value.l, "[", "]", print_readably, heap, visiting)
      [] mal_value.t = "Map" -> pr_map(mal_value, print_readably, heap, visiting)
      [] mal_value.t = "RustFunc" -> Ok("#<rust_function>")
      [] mal_value.t = "MalFunc" -> Ok("#<function>")
      [] mal_value.t = "Atom" -> PrAtom(mal_value, print_readably, heap, visiting)

\* impl fmt::Display for MalError
Display(mal_error, heap) ==
    CASE mal_error.t = "EmptyProgram" -> Ok("Empty program.")
      [] mal_error.t = "Tokenizer" -> Ok("Tokenizer error: " \o mal_error.s)
      [] mal_error.t = "Parser" -> Ok("Parser error: " \o mal_error.s)
      [] mal_error.t = "UndefinedSymbol" -> Ok("'" \o mal_error.s \o "' not found")
      [] mal_error.t = "Evaluation" -> Ok("Error in evaluation: " \o mal_error.s)
      [] mal_error.t = "RustFunction" ->
            Ok("Error when calling rust function: " \o mal_error.s)
      [] mal_error.t = "SpecialForm" ->
            Ok("Error when evaluating special form: " \o mal_error.s)
      [] mal_error.t = "Exception" ->
            Enclosed("Exception: ", pr_str(mal_error.l[1], TRUE, heap, {}), "")

\* print: pr_str(mal_val, true)
print(mal_val, heap) == pr_str(mal_val, TRUE, heap, {})

\* What the loop of run_repl prints for the result r of rep: the text of
\* the value, "Error! " and the error, nothing for EmptyProgram.  A panic
\* in rep ends the process before anything is printed.
Printed(r, heap) ==
    IF r.ok
    THEN print(r.val, heap)
    ELSE IF r.val.t \in {"Panic", "EmptyProgram"}
         THEN Ok("")
         ELSE Enclosed("Error! ", Display(r.val, heap), "")

\* The lines written to the standard output for the result r of rep.
Output(r, text) == IF ~r.ok /\ r.val.t \in {"Panic", "EmptyProgram"} THEN <<>> ELSE <<text>>

\* The state after a line whose evaluation returned r and for which out
\* was printed.
RepKeep(r, out, first, rest) ==
    /\ envs' = Compact(r.st.envs, first, rest)
    /\ atoms' = CompactAtoms(r.st.atoms, first, rest)
    /\ last' = [op |-> "rep", ok |-> r.ok, val |-> Moved(r.val, first, rest),
                depth |-> r.st.depth, log |-> MovedLog(r.st.log, first, rest),
                out |-> out]
    /\ halted' = (~r.ok /\ r.val.t = "Panic")

RepCollect(r, out) ==
    RepKeep(r, out, Reachable(r.st.envs, r.st.atoms, {EnvRef(1)}),
            Reachable(r.st.envs, r.st.atoms, RefsOf(r.val) \cup LogRefs(r.st.log))
                \ Reachable(r.st.envs, r.st.atoms, {EnvRef(1)}))

\* p is the result of printing r: a panic there ends the process as one in
\* the evaluation does.
RepPrinted(r, p) ==
    IF p.ok
    THEN RepCollect(r, Output(r, p.val))
    ELSE RepCollect(Res(FALSE, p.val, r.st), <<>>)

MutRepRollsBack(r) ==
    IF r.ok
    THEN RepPrinted(r, Printed(r, [atoms |-> r.st.atoms, order |-> r.st.order]))
    ELSE RepPrinted(Res(FALSE, r.val, St(envs, atoms, r.st.order)),
                    Printed(r, [atoms |-> r.st.atoms, order |-> r.st.order]))

RepResult(r) == RepPrinted(r, Printed(r, [atoms |-> r.st.atoms, order |-> r.st.order]))

\* rep on a line already read as ast: eval in the root environment, then
\* print.  A panic ends the process.
Rep(ast) ==
    /\ ~halted
    /\ \E order \in HashOrders : RepResult(eval(ast, 1, St(envs, atoms, order), 1))
    /\ line' = ast
    /\ UNCHANGED written

(***************************************************************************)
(* SpecBinds: with_binds as the evaluator calls it.  The first line given  *)
(* to a fresh interpreter is ((fn* params :body) args...), for every       *)
(* parameter list and every argument list within the bounds.               *)
(***************************************************************************)
BindNames == {"a", "b", "&"}
BindVals == {Number(1), Number(2)}

SeqsUpTo(S, n) == UNION {[1..m -> S] : m \in 0..n}

ApplyLine(params, args) ==
    List(<<List(<<Symbol("fn*"),
                  List([i \in 1..Len(params) |-> Symbol(params[i])]),
                  Keyword("body")>>)>> \o args)

RepApply(params, args) ==
    /\ last.op = "start"
    /\ Rep(ApplyLine(params, args))

NextBinds ==
    \E params \in SeqsUpTo(BindNames, MaxBinds), args \in SeqsUpTo(BindVals, MaxExprs) :
        RepApply(params, args)

SpecBinds == InitRoot /\ [][NextBinds]_vars

\* The with_binds call of the line evaluated last.
Called == last.op = "rep" /\ Len(last.log) = 1
Call == last.log[1]

HasAmp(binds) == \E i \in 1..Len(binds) : binds[i] = "&"
\* Index (from 0) of the first "&" of binds.
FirstAmp(binds) ==
    (CHOOSE i \in 1..Len(binds) : binds[i] = "&" /\ \A j \in 1..(i - 1) : binds[j] # "&") - 1
\* The elements of exprs from index i (from 0) on.
ElementsFrom(exprs, i) ==
    [j \in 1..(IF Len(exprs) > i THEN Len(exprs) - i ELSE 0) |-> exprs[i + j]]

\* C6 as claimed: with "&" at index i of binds followed by a name v,
\* with_binds succeeds for every exprs of every length and binds v to the
\* List of the elements of exprs from index i on (empty when there are none).
C6_VariadicBindsRestForEveryLength ==
    (/\ Called
     /\ HasAmp(Call.binds)
     /\ FirstAmp(Call.binds) + 2 <= Len(Call.binds))
    => /\ Call.ok
       /\ last.ok
       /\ envs[Call.env].data[Call.binds[FirstAmp(Call.binds) + 2]]
            = List(ElementsFrom(Call.exprs, FirstAmp(Call.binds)))

\* Index (from 1) of the last occurrence of name among binds.
LastIndex(binds, name) ==
    CHOOSE i \in 1..Len(binds) : binds[i] = name /\ \A j \in (i + 1)..Len(binds) : binds[j] # name
ExprAt(exprs, k) == IF k <= Len(exprs) THEN exprs[k] ELSE Nil
Range(seq) == {seq[i] : i \in 1..Len(seq)}

\* C7 as claimed: without "&", the k-th name is bound to the k-th element of
\* exprs (Nil beyond the end of exprs) for every k.
C7_KthNameGetsKthExpr ==
    (Called /\ ~HasAmp(Call.binds))
    => /\ Call.ok
       /\ \A k \in 1..Len(Call.binds) :
             envs[Call.env].data[Call.binds[k]] = ExprAt(Call.exprs, k)

\* C7, amended: without "&", with_binds succeeds; each name of binds is
\* bound to the element of exprs at the index of its LAST occurrence in
\* binds, and to Nil when that index is beyond the end of exprs; nothing
\* else is bound (elements of exprs beyond binds are ignored); the new
\* environment has outer as parent and every other name resolves as in outer.
C7_PositionalBinds ==
    (Called /\ ~HasAmp(Call.binds))
    => /\ Call.ok
       /\ last.ok
       /\ DOMAIN envs[Call.env].data = Range(Call.binds)
       /\ \A name \in Range(Call.binds) :
             envs[Call.env].data[name] = ExprAt(Call.exprs, LastIndex(Call.binds, name))
       /\ envs[Call.env].outer = Call.outer
       /\ \A name \in (DOMAIN RootData \cup BindNames) \ Range(Call.binds) :
             EnvGet(envs, Call.env, name) = EnvGet(envs, Call.outer, name)

\* Three distinct-position names, two arguments: a positional binding, a
\* name beyond exprs, and a root name seen through outer.
C7_Witness ==
    /\ Called
    /\ Call.binds = <<"a", "b", "a">>
    /\ Call.exprs = <<Number(1), Number(2)>>
    /\ envs[Call.env].data["a"] = Nil
    /\ envs[Call.env].data["b"] = Number(2)
    /\ EnvGet(envs, Call.env, "not") = Ok(NotFunc)

\* The parameter names of the fn* form at the head of the line evaluated last.
LineParams ==
    [i \in 1..Len(line.l[1].l[2].l) |-> line.l[1].l[2].l[i].s]

\* C8 as claimed: with_binds fails with an Evaluation error whenever "&" is
\* the last name of binds, for every exprs.
C8_AmpLastAlwaysFails ==
    (Called /\ Len(Call.binds) > 0 /\ Call.binds[Len(Call.binds)] = "&")
    => /\ ~Call.ok
       /\ Call.err.t = "Evaluation"

\* C8, amended: with_binds fails with an Evaluation error, for every exprs,
\* whenever the FIRST "&" of binds is its last name; creating such a
\* function succeeds and every application of it returns that Evaluation
\* error instead of a value.
C8_FirstAmpLastFails ==
    (/\ last.op = "rep"
     /\ HasAmp(LineParams)
     /\ FirstAmp(LineParams) = Len(LineParams) - 1)
    => /\ Called
       /\ Call.binds = LineParams
       /\ ~Call.ok
       /\ Call.err = Evaluation("Error in argument binding: no parameter after '&'")
       /\ ~last.ok
       /\ last.val = Call.err

\* (fn* (a &) :body) applied to two arguments.
C8_Witness ==
    /\ Called
    /\ Call.binds = <<"a", "&">>
    /\ Len(Call.exprs) = 2
    /\ ~last.ok
    /\ last.val.t = "Evaluation"


(***************************************************************************)
(* SpecRepl: the REPL fed, in any order and any number of times, with      *)
(* lines that define and read names at the top level, apply functions      *)
(* whose body defines a name (directly and through eval), make a closure   *)
(* and call it, and use let*.                                              *)
(***************************************************************************)
MaxN == 7

DefVals == 1..2
ReplNames == {"a", "x", "y"}

Quote(ast) == List(<<Symbol("quote"), ast>>)
Def(s, e) == List(<<Symbol("def!"), Symbol(s), e>>)
Fn(params, body) == List(<<Symbol("fn*"), params, body>>)
Do(forms) == List(<<Symbol("do")>> \o forms)
Let(bindings, body) == List(<<Symbol("let*"), List(bindings), body>>)
If(test, then, else) == List(<<Symbol("if"), test, then, else>>)
App(f, args) == List(<<f>> \o args)

\* (def! a k)
DefA(k) == Def("a", Number(k))
\* (def! x k)
DefX(k) == Def("x", Number(k))
\* (def! y x)
DefYX == Def("y", Symbol("x"))
\* ((fn* [] (def! a k)))
FnDef(k) == App(Fn(Vector(<<>>), DefA(k)), <<>>)
\* ((fn* (x) (do (def! y x) y)) k)
InnerDef(k) ==
    App(Fn(List(<<Symbol("x")>>), Do(<<DefYX, Symbol("y")>>)), <<Number(k)>>)
\* ((fn* (a) (do (eval (quote (def! a k))) a)) 6)
FnEvalDef(k) ==
    App(Fn(List(<<Symbol("a")>>),
           Do(<<App(Symbol("eval"), <<Quote(DefA(k))>>), Symbol("a")>>)),
        <<Number(6)>>)
\* (let* (a 5) ((fn* (b) (do (eval (quote (def! a k))) a)) 6))
LetFnEvalDef(k) ==
    Let(<<Symbol("a"), Number(5)>>,
        App(Fn(List(<<Symbol("b")>>),
               Do(<<App(Symbol("eval"), <<Quote(DefA(k))>>), Symbol("a")>>)),
            <<Number(6)>>))

\* (def! f (fn* (n) (do (let* (m (- n 1)) (if (< n 1) :done (f m))))))
DefF ==
    Def("f", Fn(List(<<Symbol("n")>>),
                Do(<<Let(<<Symbol("m"), App(Symbol("-"), <<Symbol("n"), Number(1)>>)>>,
                         If(App(Symbol("<"), <<Symbol("n"), Number(1)>>),
                            Keyword("done"),
                            App(Symbol("f"), <<Symbol("m")>>)))>>)))
\* (f n)
CallF(n) == App(Symbol("f"), <<Number(n)>>)
\* (def! g (fn* (n) (if (< n 1) 0 (+ 1 (g (- n 1))))))
DefG ==
    Def("g", Fn(List(<<Symbol("n")>>),
                If(App(Symbol("<"), <<Symbol("n"), Number(1)>>),
                   Number(0),
                   App(Symbol("+"),
                       <<Number(1),
                         App(Symbol("g"),
                             <<App(Symbol("-"), <<Symbol("n"), Number(1)>>)>>)>>))))
\* (g n)
CallG(n) == App(Symbol("g"), <<Number(n)>>)

\* (let* () (let* () (let* () :k)))
NestedLet == Let(<<>>, Let(<<>>, Let(<<>>, Keyword("k"))))
\* (do (do (do :k)))
NestedDo == Do(<<Do(<<Do(<<Keyword("k")>>)>>)>>)
\* (if true (if true (if true :k nil) nil) nil)
NestedIf == If(True, If(True, If(True, Keyword("k"), Nil), Nil), Nil)
\* ((fn* () ((fn* () ((fn* () :k))))))
NestedApp ==
    App(Fn(List(<<>>), App(Fn(List(<<>>), App(Fn(List(<<>>), Keyword("k")), <<>>)), <<>>)),
        <<>>)
NestedLines == {NestedLet, NestedDo, NestedIf, NestedApp}

\* (def! c ((fn* (x) (fn* () x)) 7))
DefC ==
    Def("c", App(Fn(List(<<Symbol("x")>>), Fn(List(<<>>), Symbol("x"))), <<Number(7)>>))
\* (c)
CallC == App(Symbol("c"), <<>>)

\* (let* (x 3 y (+ x 1)) (list x y))
LetSeq ==
    Let(<<Symbol("x"), Number(3),
          Symbol("y"), App(Symbol("+"), <<Symbol("x"), Number(1)>>)>>,
        App(Symbol("list"), <<Symbol("x"), Symbol("y")>>))
\* (let* (x 3 y (+ x 1)) (fn* () y))
LetClosure ==
    Let(<<Symbol("x"), Number(3),
          Symbol("y"), App(Symbol("+"), <<Symbol("x"), Number(1)>>)>>,
        Fn(List(<<>>), Symbol("y")))

DefLines == {DefA(k) : k \in DefVals} \cup {DefX(k) : k \in DefVals} \cup {DefYX}
BodyDefLines ==
    {FnDef(k) : k \in DefVals} \cup {InnerDef(k) : k \in DefVals}
        \cup {FnEvalDef(k) : k \in DefVals} \cup {LetFnEvalDef(k) : k \in DefVals}

NextRepl ==
    \/ \E ast \in DefLines : Rep(ast)
    \/ \E s \in ReplNames : Rep(Symbol(s))
    \/ \E ast \in BodyDefLines : Rep(ast)
    \/ Rep(DefC)
    \/ Rep(CallC)
    \/ \E ast \in {LetSeq, LetClosure} : Rep(ast)

SpecRepl == InitRoot /\ [][NextRepl]_vars

\* The bindings of the root environment.
Root == envs[1].data

\* C3: the eval built-in evaluates its argument in the root environment
\* wherever it is called.  A def! that is the body of an applied function
\* leaves every root binding as it was; a def! run through (eval ...) from
\* inside a function, or from a function inside a let*, that both hold their
\* own a, sets a in the root environment and leaves the caller's a alone
\* (the line returns the caller's a: 6, and 5).
C3_EvalBuiltinUsesRootEnv ==
    [][\A k \in DefVals :
          /\ line' = FnDef(k) =>
                /\ last'.ok
                /\ last'.val = Number(k)
                /\ envs'[1].data = envs[1].data
          /\ line' = FnEvalDef(k) =>
                /\ last'.ok
                /\ last'.val = Number(6)
                /\ envs'[1].data = ("a" :> Number(k)) @@ envs[1].data
          /\ line' = LetFnEvalDef(k) =>
                /\ last'.ok
                /\ last'.val = Number(5)
                /\ envs'[1].data = ("a" :> Number(k)) @@ envs[1].data
      ]_vars

\* (let* (a 5) ((fn* (b) (do (eval (quote (def! a 2))) a)) 6)) has returned
\* the 5 of the let* and has made the root a 2.
C3_Witness ==
    /\ line = LetFnEvalDef(2)
    /\ last.ok
    /\ last.val = Number(5)
    /\ "a" \in DOMAIN Root
    /\ Root["a"] = Number(2)

\* C5: once (def! c ((fn* (x) (fn* () x)) 7)) has been evaluated, every
\* call (c) returns 7, whatever def! of x in the root environment happened
\* before or after the definition.
C5_ClosureKeepsCapturedBinding ==
    (line = CallC /\ "c" \in DOMAIN Root) => (last.ok /\ last.val = Number(7))

\* (c) has returned 7 while the root environment binds x to 2.
C5_Witness ==
    /\ line = CallC
    /\ last.ok
    /\ last.val = Number(7)
    /\ "x" \in DOMAIN Root
    /\ Root["x"] = Number(2)

\* C9: (def! s e) evaluates e in the current environment, binds s to the
\* value in the current environment only, and returns the value; a lookup
\* of s on the next line returns it.  At the top level the current
\* environment is the root; inside ((fn* (x) (do (def! y x) y)) k) it is
\* the environment of the call, where x is k: y is bound there, the root is
\* left as it was, and the lookup of y from there returns k.
C9_DefBindsInCurrentEnv ==
    [][/\ \A k \in DefVals :
            /\ line' = DefA(k) =>
                  /\ last'.ok
                  /\ last'.val = Number(k)
                  /\ envs'[1].data = ("a" :> Number(k)) @@ envs[1].data
            /\ line' = DefX(k) =>
                  /\ last'.ok
                  /\ last'.val = Number(k)
                  /\ envs'[1].data = ("x" :> Number(k)) @@ envs[1].data
            /\ line' = InnerDef(k) =>
                  /\ last'.ok
                  /\ last'.val = Number(k)
                  /\ envs'[1].data = envs[1].data
                  /\ Len(last'.log) = 1
                  /\ envs'[last'.log[1].env].data =
                        ("x" :> Number(k)) @@ ("y" :> Number(k))
       /\ (line' = DefYX /\ "x" \in DOMAIN envs[1].data) =>
            /\ last'.ok
            /\ last'.val = envs[1].data["x"]
            /\ envs'[1].data = ("y" :> envs[1].data["x"]) @@ envs[1].data
       /\ \A s \in ReplNames :
            (/\ line' = Symbol(s)
             /\ line.t = "List"
             /\ Len(line.l) = 3
             /\ line.l[1] = Symbol("def!")
             /\ line.l[2] = Symbol(s)
             /\ last.ok) =>
                /\ last'.ok
                /\ last'.val = last.val
      ]_vars

\* ((fn* (x) (do (def! y x) y)) 2) has returned 2 while the root binds x to
\* 1 and has no y.
C9_Witness ==
    /\ line = InnerDef(2)
    /\ last.ok
    /\ last.val = Number(2)
    /\ "x" \in DOMAIN Root
    /\ Root["x"] = Number(1)
    /\ "y" \notin DOMAIN Root
    /\ envs[last.log[1].env].data["y"] = Number(2)

\* C10: let* evaluates its binding expressions in order in one new child
\* environment, each seeing the names bound before it, and evaluates the
\* body there; the enclosing environment has no binding added or changed.
\* (let* (x 3 y (+ x 1)) (list x y)) returns (3 4) whatever x and y are in
\* the root, and the function returned by (let* (x 3 y (+ x 1)) (fn* () y))
\* holds the one new environment: a child of the root with exactly x and y.
C10_LetSequentialChildEnv ==
    [][/\ line' = LetSeq =>
            /\ last'.ok
            /\ last'.val = List(<<Number(3), Number(4)>>)
            /\ envs'[1].data = envs[1].data
       /\ line' = LetClosure =>
            /\ last'.ok
            /\ last'.val.t = "MalFunc"
            /\ envs'[last'.val.n] =
                  [data |-> ("x" :> Number(3)) @@ ("y" :> Number(4)), outer |-> 1]
            /\ envs'[1].data = envs[1].data
            /\ Len(envs') = Cardinality(Kept(Reachable(envs, atoms, {EnvRef(1)}), {}, "env")) + 1
      ]_vars

\* (let* (x 3 y (+ x 1)) (list x y)) has returned (3 4) while the root binds
\* x to 1 and y to 1.
C10_Witness ==
    /\ line = LetSeq
    /\ last.ok
    /\ last.val = List(<<Number(3), Number(4)>>)
    /\ "x" \in DOMAIN Root
    /\ Root["x"] = Number(1)
    /\ "y" \in DOMAIN Root
    /\ Root["y"] = Number(1)

(***************************************************************************)
(* SpecTail: the REPL fed with the definitions of a function that calls    *)
(* itself in tail position (f) and of one that does not (g), calls of both *)
(* with every argument up to MaxN, and nested tail forms.                  *)
(***************************************************************************)
NextTail ==
    \/ \E k \in DefVals : Rep(DefA(k))
    \/ Rep(DefF)
    \/ \E n \in 0..MaxN : Rep(CallF(n))
    \/ Rep(DefG)
    \/ \E n \in 0..MaxN : Rep(CallG(n))
    \/ \E ast \in NestedLines : Rep(ast)

SpecTail == InitRoot /\ [][NextTail]_vars

\* C4: the body of let*, the last argument of do, the chosen branch of if
\* and the body of an applied function are evaluated by the eval invocation
\* that met the form, not by a new one.  A call (f n) of the function that
\* calls itself in tail position of if (inside do and let*) returns :done
\* with at most 3 eval invocations active at once, for every n; three
\* nested let* or do need 1 invocation, three nested if or applications 2.
C4_TailCallsDoNotNest ==
    /\ (line \in {CallF(n) : n \in 0..MaxN} /\ "f" \in DOMAIN envs[1].data) =>
          /\ last.ok
          /\ last.val = Keyword("done")
          /\ last.depth <= 3
    /\ line \in {NestedLet, NestedDo} =>
          /\ last.ok
          /\ last.val = Keyword("k")
          /\ last.depth = 1
    /\ line \in {NestedIf, NestedApp} =>
          /\ last.ok
          /\ last.val = Keyword("k")
          /\ last.depth = 2

\* (f MaxN) has returned :done, MaxN being more calls than the host stack
\* holds eval invocations.
C4_Witness ==
    /\ line = CallF(MaxN)
    /\ MaxN > StackLimit
    /\ last.ok
    /\ last.val = Keyword("done")
    /\ last.depth = 3

(***************************************************************************)
(* SpecOrder: the REPL fed, in any order, with (def! a (atom 0)) and with  *)
(* lines whose parts write the atom a or define names, so that what was    *)
(* evaluated, how often and in which order shows in the atom, in the root  *)
(* environment and in the result: do, if, quote, and the elements of       *)
(* vectors and applications.                                               *)
(***************************************************************************)
OrderVals == 0..1

\* (fn* (n) (+ n 1)) and (fn* (n) (+ n n))
Inc == Fn(List(<<Symbol("n")>>), App(Symbol("+"), <<Symbol("n"), Number(1)>>))
Dbl == Fn(List(<<Symbol("n")>>), App(Symbol("+"), <<Symbol("n"), Symbol("n")>>))

ResetA(k) == App(Symbol("reset!"), <<Symbol("a"), Number(k)>>)
SwapA(f) == App(Symbol("swap!"), <<Symbol("a"), f>>)
DerefA == App(Symbol("deref"), <<Symbol("a")>>)

\* (def! a (atom 0))
DefAtom == Def("a", App(Symbol("atom"), <<Number(0)>>))

\* (do (reset! a k) (swap! a (fn* (n) (+ n 1))) (swap! a (fn* (n) (+ n n))) (deref a))
DoSwaps(k) == Do(<<ResetA(k), SwapA(Inc), SwapA(Dbl), DerefA>>)
\* (do (def! x k) (def! y x) y)
DoDefs(k) == Do(<<DefX(k), DefYX, Symbol("y")>>)
\* ((fn* (z) (do (def! w z) (list z w))) k)
DoInner(k) ==
    App(Fn(List(<<Symbol("z")>>),
           Do(<<Def("w", Symbol("z")), App(Symbol("list"), <<Symbol("z"), Symbol("w")>>)>>)),
        <<Number(k)>>)
\* (do)
DoEmpty == Do(<<>>)
DoLines ==
    {DoSwaps(k) : k \in OrderVals} \cup {DoDefs(k) : k \in OrderVals}
        \cup {DoInner(k) : k \in OrderVals} \cup {DoEmpty}

\* The values an if is tested with: false, nil, true, 0, "", (), [], :k
IfTests == {False, Nil, True, Number(0), Str(""), List(<<>>), Vector(<<>>), Keyword("k")}
\* (if test (reset! a 1) (reset! a 2))
IfElse(test) == If(test, ResetA(1), ResetA(2))
\* (if test (reset! a 1))
IfNoElse(test) == List(<<Symbol("if"), test, ResetA(1)>>)
\* (do (reset! a k) (if (swap! a (fn* (n) (+ n 1))) (deref a) :else))
IfTestOnce(k) == Do(<<ResetA(k), If(SwapA(Inc), DerefA, Keyword("else"))>>)
\* (do (reset! a k) (if (do (swap! a (fn* (n) (+ n 1))) nil) :then (deref a)))
IfTestOnceNil(k) ==
    Do(<<ResetA(k), If(Do(<<SwapA(Inc), Nil>>), Keyword("then"), DerefA)>>)
IfLines ==
    {IfElse(test) : test \in IfTests} \cup {IfNoElse(test) : test \in IfTests}
        \cup {IfTestOnce(k) : k \in OrderVals} \cup {IfTestOnceNil(k) : k \in OrderVals}

\* What is quoted: nosuch, (reset! a 9), (def! x 9), (+ 1 (2 3)), [nosuch],
\* 1, (), (nosuch (deref a))
Quoted ==
    {Symbol("nosuch"), ResetA(9), DefX(9),
     App(Symbol("+"), <<Number(1), List(<<Number(2), Number(3)>>)>>),
     Vector(<<Symbol("nosuch")>>), Number(1), List(<<>>),
     App(Symbol("nosuch"), <<DerefA>>)}
QuoteLines == {Quote(x) : x \in Quoted}

\* [(reset! a 1) (swap! a (fn* (n) (+ n n))) (deref a)]
SeqVector == Vector(<<ResetA(1), SwapA(Dbl), DerefA>>)
\* (list (reset! a 1) (swap! a (fn* (n) (+ n n))) (deref a))
SeqApp == App(Symbol("list"), <<ResetA(1), SwapA(Dbl), DerefA>>)
\* ((do (reset! a 3) list) (swap! a (fn* (n) (+ n n))))
SeqHead == App(Do(<<ResetA(3), Symbol("list")>>), <<SwapA(Dbl)>>)
\* [(reset! a 1) (nosuch) (reset! a 2)]
SeqFailVector == Vector(<<ResetA(1), App(Symbol("nosuch"), <<>>), ResetA(2)>>)
\* (list (reset! a 1) nosuch other (reset! a 2))
SeqFailApp ==
    App(Symbol("list"), <<ResetA(1), Symbol("nosuch"), Symbol("other"), ResetA(2)>>)
SeqLines == {SeqVector, SeqApp, SeqHead, SeqFailVector, SeqFailApp}

NextOrder ==
    \/ Rep(DefAtom)
    \/ \E ast \in DoLines : Rep(ast)
    \/ \E ast \in IfLines : Rep(ast)
    \/ \E ast \in QuoteLines : Rep(ast)
    \/ \E ast \in SeqLines : Rep(ast)

SpecOrder == InitRoot /\ [][NextOrder]_vars

\* The root environment binds name to an atom.
IsAtomAt(h, name) == name \in DOMAIN h[1].data /\ h[1].data[name].t = "Atom"
\* The content of the atom that the root environment binds name to.
ContentAt(h, cells, name) == cells[h[1].data[name].n]

\* C11: do evaluates its arguments once each, left to right, in the
\* current environment, each seeing the effects of those before it, and
\* returns the value of the last; (do) returns Nil.  With a an atom,
\* (do (reset! a k) (swap! a inc) (swap! a double) (deref a)) returns
\* 2 * (k + 1) and leaves it in a; (do (def! x k) (def! y x) y) returns k
\* with x and y bound to k in the root; inside a function call the def! of
\* a do binds in the environment of the call; (do) changes nothing.
C11_DoEvaluatesInOrder ==
    [][/\ \A k \in OrderVals :
            /\ (line' = DoSwaps(k) /\ IsAtomAt(envs, "a")) =>
                  /\ last'.ok
                  /\ last'.val = Number(2 * (k + 1))
                  /\ ContentAt(envs', atoms', "a") = Number(2 * (k + 1))
                  /\ envs'[1].data = envs[1].data
            /\ line' = DoDefs(k) =>
                  /\ last'.ok
                  /\ last'.val = Number(k)
                  /\ envs'[1].data =
                        ("x" :> Number(k)) @@ ("y" :> Number(k)) @@ envs[1].data
                  /\ atoms' = atoms
            /\ line' = DoInner(k) =>
                  /\ last'.ok
                  /\ last'.val = List(<<Number(k), Number(k)>>)
                  /\ envs'[1].data = envs[1].data
                  /\ atoms' = atoms
       /\ line' = DoEmpty =>
            /\ last'.ok
            /\ last'.val = Nil
            /\ envs'[1].data = envs[1].data
            /\ atoms' = atoms
      ]_vars

\* (do (reset! a 1) (swap! a inc) (swap! a double) (deref a)) has returned
\* 4 and a holds 4.
C11_Witness ==
    /\ line = DoSwaps(1)
    /\ last.ok
    /\ last.val = Number(4)
    /\ IsAtomAt(envs, "a")
    /\ ContentAt(envs, atoms, "a") = Number(4)

\* C12: if evaluates its test once and then exactly one branch: the else
\* branch (Nil when there is none) when the test is False or Nil, the then
\* branch for every other value, 0, "", () and [] included.  With a an
\* atom, (if test (reset! a 1) (reset! a 2)) returns 2 and leaves 2 in a
\* for false and nil, and 1 for each other test; without else branch a
\* false or nil test returns Nil and a keeps its content; a test that adds
\* 1 to a has added exactly 1 when the branch reads a.
C12_IfEvaluatesOneBranch ==
    [][/\ \A test \in IfTests :
            /\ (line' = IfElse(test) /\ IsAtomAt(envs, "a")) =>
                  /\ last'.ok
                  /\ last'.val = Number(IF test \in {False, Nil} THEN 2 ELSE 1)
                  /\ ContentAt(envs', atoms', "a") = last'.val
            /\ (line' = IfNoElse(test) /\ IsAtomAt(envs, "a")) =>
                  /\ last'.ok
                  /\ IF test \in {False, Nil}
                     THEN last'.val = Nil /\ atoms' = atoms
                     ELSE /\ last'.val = Number(1)
                          /\ ContentAt(envs', atoms', "a") = Number(1)
       /\ \A k \in OrderVals :
            (line' \in {IfTestOnce(k), IfTestOnceNil(k)} /\ IsAtomAt(envs, "a")) =>
                /\ last'.ok
                /\ last'.val = Number(k + 1)
                /\ ContentAt(envs', atoms', "a") = Number(k + 1)
      ]_vars

\* (if 0 (reset! a 1) (reset! a 2)) has returned 1 and a holds 1.
C12_Witness ==
    /\ line = IfElse(Number(0))
    /\ last.ok
    /\ last.val = Number(1)
    /\ IsAtomAt(envs, "a")
    /\ ContentAt(envs, atoms, "a") = Number(1)

\* C13: (quote x) returns x unchanged and evaluates nothing inside x: the
\* result is x itself for an undefined symbol, a list that would reset a,
\* a def!, nested lists, a vector; no further eval invocation is started,
\* no function is applied, and the root environment and the atoms are as
\* they were.
C13_QuoteReturnsUnevaluated ==
    [][\A x \in Quoted :
          line' = Quote(x) =>
              /\ last'.ok
              /\ last'.val = x
              /\ last'.depth = 1
              /\ last'.log = <<>>
              /\ envs'[1].data = envs[1].data
              /\ atoms' = atoms
      ]_vars

\* (quote (reset! a 9)) has returned the list (reset! a 9) while a is an
\* atom that holds a number other than 9.
C13_Witness ==
    /\ line = Quote(ResetA(9))
    /\ last.ok
    /\ last.val = ResetA(9)
    /\ IsAtomAt(envs, "a")
    /\ ContentAt(envs, atoms, "a") = Number(2)

\* C15: the elements of a vector and of an application list are evaluated
\* left to right, each seeing the effects of those before it, and the first
\* failing element ends the evaluation with its error.  With a an atom,
\* [(reset! a 1) (swap! a double) (deref a)] is [1 2 2], the same elements
\* given to list are (1 2 2), the head of an application is evaluated
\* before its arguments, and after [(reset! a 1) (nosuch) (reset! a 2)] and
\* (list (reset! a 1) nosuch other (reset! a 2)) the error is that nosuch
\* is not found and a holds 1.
C15_ElementsLeftToRight ==
    [][/\ (line' = SeqVector /\ IsAtomAt(envs, "a")) =>
            /\ last'.ok
            /\ last'.val = Vector(<<Number(1), Number(2), Number(2)>>)
            /\ ContentAt(envs', atoms', "a") = Number(2)
       /\ (line' = SeqApp /\ IsAtomAt(envs, "a")) =>
            /\ last'.ok
            /\ last'.val = List(<<Number(1), Number(2), Number(2)>>)
            /\ ContentAt(envs', atoms', "a") = Number(2)
       /\ (line' = SeqHead /\ IsAtomAt(envs, "a")) =>
            /\ last'.ok
            /\ last'.val = List(<<Number(6)>>)
            /\ ContentAt(envs', atoms', "a") = Number(6)
       /\ (line' \in {SeqFailVector, SeqFailApp} /\ IsAtomAt(envs, "a")) =>
            /\ ~last'.ok
            /\ last'.val = UndefinedSymbol("nosuch")
            /\ ContentAt(envs', atoms', "a") = Number(1)
      ]_vars

\* [(reset! a 1) (nosuch) (reset! a 2)] has failed on nosuch and a holds 1.
C15_Witness ==
    /\ line = SeqFailVector
    /\ ~last.ok
    /\ last.val = UndefinedSymbol("nosuch")
    /\ IsAtomAt(envs, "a")
    /\ ContentAt(envs, atoms, "a") = Number(1)

(***************************************************************************)
(* SpecForms: the REPL fed with special forms of a wrong arity or shape,   *)
(* at the top level and as the body of an applied function, between        *)
(* definitions of a.                                                       *)
(***************************************************************************)
Sf(name, args) == List(<<Symbol(name)>> \o args)

\* (def!) (def! x) (def! x 1 2), (let*) (let* (x 1)) (let* (x 1) x x),
\* (fn*) (fn* (a)) (fn* (a) a a), (quote) (quote 1 2), (if) (if true)
\* (if true 1 2 3)
BadArity ==
    {Sf("def!", <<>>), Sf("def!", <<Symbol("x")>>),
     Sf("def!", <<Symbol("x"), Number(1), Number(2)>>),
     Sf("let*", <<>>), Sf("let*", <<List(<<Symbol("x"), Number(1)>>)>>),
     Sf("let*", <<List(<<Symbol("x"), Number(1)>>), Symbol("x"), Symbol("x")>>),
     Sf("fn*", <<>>), Sf("fn*", <<List(<<Symbol("a")>>)>>),
     Sf("fn*", <<List(<<Symbol("a")>>), Symbol("a"), Symbol("a")>>),
     Sf("quote", <<>>), Sf("quote", <<Number(1), Number(2)>>),
     Sf("if", <<>>), Sf("if", <<True>>),
     Sf("if", <<True, Number(1), Number(2), Number(3)>>)}

\* (def! 1 2) (def! "x" 2) (def! :x 2) (def! (x) 2)
BadDefName ==
    {Sf("def!", <<name, Number(2)>>) :
        name \in {Number(1), Str("x"), Keyword("x"), List(<<Symbol("x")>>)}}

\* (let* 1 x) (let* x x) (let* "s" x) (let* nil x)
BadLetBindings ==
    {Sf("let*", <<bindings, Symbol("x")>>) :
        bindings \in {Number(1), Symbol("x"), Str("s"), Nil}}

\* (let* (x) x) (let* [x] x) (let* (x 1 y) x)
OddLetBindings ==
    {Sf("let*", <<List(<<Symbol("x")>>), Symbol("x")>>),
     Sf("let*", <<Vector(<<Symbol("x")>>), Symbol("x")>>),
     Sf("let*", <<List(<<Symbol("x"), Number(1), Symbol("y")>>), Symbol("x")>>)}

\* (let* (1 2) 1) (let* ("x" 2) 1) (let* ((x) 2) 1) (let* [x 1 :y 2] x)
\* (let* (x 1 2 3) x)
BadLetName ==
    {Sf("let*", <<List(<<Number(1), Number(2)>>), Number(1)>>),
     Sf("let*", <<List(<<Str("x"), Number(2)>>), Number(1)>>),
     Sf("let*", <<List(<<List(<<Symbol("x")>>), Number(2)>>), Number(1)>>),
     Sf("let*", <<Vector(<<Symbol("x"), Number(1), Keyword("y"), Number(2)>>), Symbol("x")>>),
     Sf("let*", <<List(<<Symbol("x"), Number(1), Number(2), Number(3)>>), Symbol("x")>>)}

\* (let* (x nosuch 1 2) x): a binding name that is no symbol, after a pair
\* whose expression fails.
LateBadLetName ==
    Sf("let*", <<List(<<Symbol("x"), Symbol("nosuch"), Number(1), Number(2)>>), Symbol("x")>>)

\* (fn* 1 a) (fn* a a) (fn* "s" a) (fn* nil a)
BadFnParameters ==
    {Sf("fn*", <<parameters, Symbol("a")>>) :
        parameters \in {Number(1), Symbol("a"), Str("s"), Nil}}

\* (fn* (1) a) (fn* (a "b") a) (fn* [a :k] a) (fn* ((a)) a)
BadFnParameter ==
    {Sf("fn*", <<List(<<Number(1)>>), Symbol("a")>>),
     Sf("fn*", <<List(<<Symbol("a"), Str("b")>>), Symbol("a")>>),
     Sf("fn*", <<Vector(<<Symbol("a"), Keyword("k")>>), Symbol("a")>>),
     Sf("fn*", <<List(<<List(<<Symbol("a")>>)>>), Symbol("a")>>)}

BadForms ==
    BadArity \cup BadDefName \cup BadLetBindings \cup OddLetBindings \cup BadLetName
        \cup {LateBadLetName} \cup BadFnParameters \cup BadFnParameter

\* ((fn* () form))
InBody(form) == App(Fn(List(<<>>), form), <<>>)

\* The heads that evaluate to a value that is no function: 1, "s", :k, nil,
\* true, [], (), {}, (atom 1), (list 1), and a once it is defined.
NonCallableHeads ==
    {Number(1), Str("s"), Keyword("k"), Nil, True, Vector(<<>>), List(<<>>), Map(<<>>),
     App(Symbol("atom"), <<Number(1)>>), App(Symbol("list"), <<Number(1)>>), Symbol("a")}

\* (head), (head 2), and (head nosuch), whose argument fails
NonCallableLines ==
    {App(head, args) : head \in NonCallableHeads, args \in {<<>>, <<Number(2)>>}}
NonCallableArgFails == {App(head, <<Symbol("nosuch")>>) : head \in NonCallableHeads}

NextForms ==
    \/ \E k \in DefVals : Rep(DefA(k))
    \/ \E form \in BadForms : Rep(form)
    \/ \E form \in BadForms : Rep(InBody(form))
    \/ \E ast \in NonCallableLines \cup NonCallableArgFails : Rep(ast)

SpecForms == InitRoot /\ [][NextForms]_vars

\* The special form that the last line is, or has as the body it applies.
FormOfLine == IF line.l[1].t = "List" THEN line.l[1].l[3] ELSE line

\* C14 as claimed: every special form of a wrong arity or shape returns a
\* SpecialForm error: def!, let*, fn* with other than 2 arguments, quote
\* with other than 1, if with fewer than 2 or more than 3, def! with a
\* first argument that is no symbol, let* with bindings that are no
\* sequence, of odd length, or with a name that is no symbol, fn* with
\* parameters that are no sequence or with a parameter that is no symbol.
C14_ShapeViolationIsSpecialFormError ==
    (last.op = "rep" /\ FormOfLine \in BadForms) =>
        (~last.ok /\ last.val.t = "SpecialForm")

\* What holds of the code: every one of these forms returns a SpecialForm
\* error but the let* whose wrong name comes after a pair whose expression
\* fails, which returns the error of that expression.
ShapeViolationsButLate ==
    /\ (last.op = "rep" /\ FormOfLine \in BadForms \ {LateBadLetName}) =>
          (~last.ok /\ last.val.t = "SpecialForm")
    /\ (last.op = "rep" /\ FormOfLine = LateBadLetName) =>
          (~last.ok /\ last.val = UndefinedSymbol("nosuch"))

\* The head of the last line evaluates: it is not a that is still undefined.
HeadEvaluates == line.l[1] = Symbol("a") => "a" \in DOMAIN envs[1].data

\* C16 as claimed: a non-empty list whose head is no special form and
\* evaluates to a value that is no function returns an Evaluation error.
C16_NonCallableHeadIsEvaluationError ==
    (last.op = "rep" /\ line \in NonCallableLines \cup NonCallableArgFails /\ HeadEvaluates) =>
        (~last.ok /\ last.val.t = "Evaluation")

\* C16: a non-empty list whose head is no special form and evaluates to a
\* value that is no function never returns a value: it returns the
\* Evaluation error when all its elements evaluate, and the error of the
\* first element that fails otherwise (the elements are evaluated before
\* the head is looked at).
C16_NonCallableHeadNeverAValue ==
    /\ (last.op = "rep" /\ line \in NonCallableLines /\ HeadEvaluates) =>
          /\ ~last.ok
          /\ last.val = Evaluation("First element of a list must evaluate to a function.")
    /\ (last.op = "rep" /\ line \in NonCallableArgFails /\ HeadEvaluates) =>
          /\ ~last.ok
          /\ last.val = UndefinedSymbol("nosuch")

\* (a 2) has returned the Evaluation error, a being bound to a number.
C16_Witness ==
    /\ line = App(Symbol("a"), <<Number(2)>>)
    /\ "a" \in DOMAIN envs[1].data
    /\ envs[1].data["a"] = Number(1)
    /\ ~last.ok
    /\ last.val.t = "Evaluation"

(***************************************************************************)
(* SpecAtoms: the REPL fed, in any order, with (def! a (atom 0)), swap!,   *)
(* reset! and deref on a, (def! b a) and (deref b), and lines that make an *)
(* atom, swap it k times and read it.  The lines that count up stop at     *)
(* MaxCount.                                                               *)
(***************************************************************************)
MaxCount == 4

\* (def! b a)
ShareB == Def("b", Symbol("a"))
\* (deref b)
DerefB == App(Symbol("deref"), <<Symbol("b")>>)

\* (swap! a (fn* (n) (+ n 1)))
SwapInc == SwapA(Inc)
\* (swap! a - 1)
SwapMinus == App(Symbol("swap!"), <<Symbol("a"), Symbol("-"), Number(1)>>)
\* (swap! a (fn* (n m) (- n m)) 1)
SwapMinusFn ==
    App(Symbol("swap!"),
        <<Symbol("a"),
          Fn(List(<<Symbol("n"), Symbol("m")>>), App(Symbol("-"), <<Symbol("n"), Symbol("m")>>)),
          Number(1)>>)
\* (do (def! a (atom 0)) (swap! a (fn* (n) (+ n 1))) ... (deref a)), k swaps
SwapsThenDeref(k) == Do(<<DefAtom>> \o [i \in 1..k |-> SwapInc] \o <<DerefA>>)

\* when a is an atom, the number it holds is below MaxCount / above 0
BelowMax == IsAtomAt(envs, "a") => ContentAt(envs, atoms, "a").n < MaxCount
Positive == IsAtomAt(envs, "a") => ContentAt(envs, atoms, "a").n > 0

NextAtoms ==
    \/ Rep(DefAtom)
    \/ BelowMax /\ Rep(SwapInc)
    \/ Positive /\ \E ast \in {SwapMinus, SwapMinusFn} : Rep(ast)
    \/ \E k \in 0..MaxCount : Rep(ResetA(k))
    \/ \E ast \in {DerefA, DerefB} : Rep(ast)
    \/ Rep(ShareB)
    \/ \E k \in 0..MaxCount : Rep(SwapsThenDeref(k))

SpecAtoms == InitRoot /\ [][NextAtoms]_vars

\* C17: (swap! a f args...) replaces the content of a by f applied to the
\* content followed by args and returns it, (reset! a v) sets the content
\* to v and returns v, deref returns the content; after k swaps that add 1
\* on (atom 0), (deref a) is k.
C17_SwapResetDeref ==
    [][/\ (line' = SwapInc /\ IsAtomAt(envs, "a")) =>
            /\ last'.ok
            /\ last'.val = Number(ContentAt(envs, atoms, "a").n + 1)
            /\ ContentAt(envs', atoms', "a") = last'.val
       /\ (line' \in {SwapMinus, SwapMinusFn} /\ IsAtomAt(envs, "a")) =>
            /\ last'.ok
            /\ last'.val = Number(ContentAt(envs, atoms, "a").n - 1)
            /\ ContentAt(envs', atoms', "a") = last'.val
       /\ \A k \in 0..MaxCount :
            /\ (line' = ResetA(k) /\ IsAtomAt(envs, "a")) =>
                  /\ last'.ok
                  /\ last'.val = Number(k)
                  /\ ContentAt(envs', atoms', "a") = Number(k)
            /\ line' = SwapsThenDeref(k) =>
                  /\ last'.ok
                  /\ last'.val = Number(k)
                  /\ ContentAt(envs', atoms', "a") = Number(k)
       /\ (line' = DerefA /\ IsAtomAt(envs, "a")) =>
            /\ last'.ok
            /\ last'.val = ContentAt(envs, atoms, "a")
            /\ atoms' = atoms
            /\ envs'[1].data = envs[1].data
       /\ (line' = DerefB /\ IsAtomAt(envs, "b")) =>
            /\ last'.ok
            /\ last'.val = ContentAt(envs, atoms, "b")
            /\ atoms' = atoms
            /\ envs'[1].data = envs[1].data
      ]_vars

\* (deref a) has returned MaxCount right after a swap that added 1.
C17_Witness ==
    /\ line = SwapInc
    /\ last.ok
    /\ last.val = Number(MaxCount)
    /\ ContentAt(envs, atoms, "a") = Number(MaxCount)

(***************************************************************************)
(* SpecShare: one atom reached through several holders: the names a and b  *)
(* of the root environment, a parameter it is passed as, and an            *)
(* environment captured by a closure (the p of get and of put).  The REPL  *)
(* is fed, in any order, with lines that make the holders and lines that   *)
(* write or read through one of them.  A new atom is made only while      *)
(* fewer than MaxCells are alive.                                          *)
(***************************************************************************)
MaxCells == 2
ShareVals == 0..1

\* (def! get ((fn* (p) (fn* () (deref p))) a))
ShareGet ==
    Def("get", App(Fn(List(<<Symbol("p")>>),
                      Fn(List(<<>>), App(Symbol("deref"), <<Symbol("p")>>))),
                   <<Symbol("a")>>))
\* (def! put (let* (p b) (fn* (v) (reset! p v))))
SharePut ==
    Def("put", Let(<<Symbol("p"), Symbol("b")>>,
                   Fn(List(<<Symbol("v")>>),
                      App(Symbol("reset!"), <<Symbol("p"), Symbol("v")>>))))

\* (reset! h k) for a name h; (put k)
WriteVia(h, k) ==
    IF h = "put"
    THEN App(Symbol("put"), <<Number(k)>>)
    ELSE App(Symbol("reset!"), <<Symbol(h), Number(k)>>)
\* ((fn* (p) (reset! p k)) h)
WriteArg(h, k) ==
    App(Fn(List(<<Symbol("p")>>), App(Symbol("reset!"), <<Symbol("p"), Number(k)>>)),
        <<Symbol(h)>>)
\* (swap! h (fn* (n) (- 1 n)))
FlipVia(h) ==
    App(Symbol("swap!"),
        <<Symbol(h), Fn(List(<<Symbol("n")>>), App(Symbol("-"), <<Number(1), Symbol("n")>>))>>)
\* (deref h) for a name h; (get)
ReadVia(h) ==
    IF h = "get"
    THEN App(Symbol("get"), <<>>)
    ELSE App(Symbol("deref"), <<Symbol(h)>>)
\* ((fn* (p) (deref p)) h)
ReadArg(h) ==
    App(Fn(List(<<Symbol("p")>>), App(Symbol("deref"), <<Symbol("p")>>)), <<Symbol(h)>>)

Names == {"a", "b"}

\* The lines that write k, that flip, and that read, each with the holder
\* it goes through.
Writes(k) ==
    {[ast |-> WriteVia(h, k), via |-> h] : h \in Names \cup {"put"}}
        \cup {[ast |-> WriteArg(h, k), via |-> h] : h \in Names}
Flips == {[ast |-> FlipVia(h), via |-> h] : h \in Names}
Reads ==
    {[ast |-> ReadVia(h), via |-> h] : h \in Names \cup {"get"}}
        \cup {[ast |-> ReadArg(h), via |-> h] : h \in Names}

NextShare ==
    \/ Len(atoms) < MaxCells /\ Rep(DefAtom)
    \/ \E ast \in {ShareB, ShareGet, SharePut} : Rep(ast)
    \/ \E k \in ShareVals : \E w \in Writes(k) : Rep(w.ast)
    \/ \E w \in Flips : Rep(w.ast)
    \/ \E r \in Reads : Rep(r.ast)

SpecShare == InitRoot /\ [][NextShare]_vars

\* The cell of the atom that holder names in heap h, 0 when it names none:
\* the value of a root name, or the p of the environment that the function
\* bound to a root name has captured.
Cell(h, holder) ==
    IF holder \notin DOMAIN h[1].data
    THEN 0
    ELSE IF holder \in Names
         THEN IF h[1].data[holder].t = "Atom" THEN h[1].data[holder].n ELSE 0
         ELSE IF /\ h[1].data[holder].t = "MalFunc"
                 /\ "p" \in DOMAIN h[h[1].data[holder].n].data
                 /\ h[h[1].data[holder].n].data["p"].t = "Atom"
              THEN h[h[1].data[holder].n].data["p"].n
              ELSE 0

SameCell(x, y) == Cell(envs, x) # 0 /\ Cell(envs, x) = Cell(envs, y)

\* C18: an atom is one shared cell: binding it to a second name, passing
\* it as an argument or capturing it in a closure makes no copy, and what
\* reset! or swap! writes through one holder is what deref reads through
\* every other holder of the same atom.
C18_AtomIsOneSharedCell ==
    [][/\ (line' = ShareB /\ IsAtomAt(envs, "a")) =>
            /\ Cell(envs', "b") = Cell(envs', "a")
            /\ Len(atoms') <= Len(atoms)
       /\ (line' = ShareGet /\ IsAtomAt(envs, "a")) =>
            /\ Cell(envs', "get") = Cell(envs', "a")
            /\ Len(atoms') <= Len(atoms)
       /\ (line' = SharePut /\ IsAtomAt(envs, "b")) =>
            /\ Cell(envs', "put") = Cell(envs', "b")
            /\ Len(atoms') <= Len(atoms)
       /\ \A r \in Reads :
            line' = r.ast =>
               /\ \A k \in ShareVals : \A w \in Writes(k) :
                     (line = w.ast /\ last.ok /\ SameCell(w.via, r.via)) =>
                        last'.ok /\ last'.val = Number(k)
               /\ \A w \in Flips \cup Reads :
                     (line = w.ast /\ last.ok /\ SameCell(w.via, r.via)) =>
                        last'.ok /\ last'.val = last.val
       /\ \A w \in Flips :
            line' = w.ast =>
               \A r \in Reads :
                  (line = r.ast /\ last.ok /\ SameCell(r.via, w.via)) =>
                     last'.ok /\ last'.val = Number(1 - last.val.n)
      ]_vars

\* get has just read the 1 that the line before wrote through put, a, b,
\* get and put holding one atom.
C18_Witness ==
    /\ line = ReadVia("get")
    /\ last.ok
    /\ last.val = Number(1)
    /\ SameCell("a", "b")
    /\ SameCell("a", "get")
    /\ SameCell("a", "put")

(***************************************************************************)
(* SpecEq: the REPL fed with (def! a (atom 0)) and then, in any order,     *)
(* with lines (= x y).                                                     *)
(***************************************************************************)
\* (= x y)
Eq(x, y) == App(Symbol("="), <<x, y>>)

\* Element sequences, as the expressions that a (list ...) call and a
\* vector literal evaluate; a is the atom of the root environment.
ElemSeqs ==
    {<<>>, <<Number(1)>>, <<Number(1), Str("x")>>, <<Nil, Keyword("k")>>,
     <<Vector(<<Number(1)>>), Number(2)>>, <<Symbol("a")>>}
AtomFree(s) == \A i \in 1..Len(s) : s[i] # Symbol("a")

\* (= (list s...) [s...]) and (= [s...] (list s...))
SeqEq(s, flip) ==
    IF flip
    THEN Eq(Vector(s), App(Symbol("list"), s))
    ELSE Eq(App(Symbol("list"), s), Vector(s))
\* (= (list (list 1 2) 3) [[1 2] 3]) and the same with the arguments swapped
NestedEq(flip) ==
    IF flip
    THEN Eq(Vector(<<Vector(<<Number(1), Number(2)>>), Number(3)>>),
            App(Symbol("list"),
                <<App(Symbol("list"), <<Number(1), Number(2)>>), Number(3)>>))
    ELSE Eq(App(Symbol("list"),
                <<App(Symbol("list"), <<Number(1), Number(2)>>), Number(3)>>),
            Vector(<<Vector(<<Number(1), Number(2)>>), Number(3)>>))

\* Operands of each type: the expression and the type of its value, List
\* and Vector counted as one ("Seq").
Operands ==
    {[ast |-> Nil, t |-> "Nil"], [ast |-> False, t |-> "False"],
     [ast |-> Number(0), t |-> "Number"], [ast |-> Str("a"), t |-> "Str"],
     [ast |-> Keyword("a"), t |-> "Keyword"],
     [ast |-> Quote(Symbol("a")), t |-> "Symbol"],
     [ast |-> Map(<<>>), t |-> "Map"],
     [ast |-> List(<<>>), t |-> "Seq"], [ast |-> Vector(<<>>), t |-> "Seq"],
     [ast |-> Symbol("a"), t |-> "Atom"],
     [ast |-> Symbol("+"), t |-> "RustFunc"],
     [ast |-> Fn(List(<<>>), Nil), t |-> "MalFunc"]}

NextEq ==
    \/ ~IsAtomAt(envs, "a") /\ Rep(DefAtom)
    \/ /\ IsAtomAt(envs, "a")
       /\ \/ \E s \in ElemSeqs : \E flip \in BOOLEAN : Rep(SeqEq(s, flip))
          \/ \E flip \in BOOLEAN : Rep(NestedEq(flip))
          \/ \E x \in Operands : \E y \in Operands :
                x.t # y.t /\ Rep(Eq(x.ast, y.ast))

SpecEq == InitRoot /\ [][NextEq]_vars

\* The line (= (list s...) [s...]), in this or the other argument order,
\* returns true.
SeqEqIsTrue(s) ==
    \A flip \in BOOLEAN :
       line' = SeqEq(s, flip) => last'.ok /\ last'.val = True

\* C19: under =, a List and a Vector with the same element sequence are
\* equal in both argument orders, nested sequences included, and any other
\* two values of different types are unequal.
C19_ListVectorEqualOthersUnequal ==
    [][IsAtomAt(envs, "a") =>
          /\ \A s \in ElemSeqs : SeqEqIsTrue(s)
          /\ \A flip \in BOOLEAN :
                line' = NestedEq(flip) => last'.ok /\ last'.val = True
          /\ \A x \in Operands : \A y \in Operands :
                (x.t # y.t /\ line' = Eq(x.ast, y.ast)) =>
                   last'.ok /\ last'.val = False
      ]_vars

\* A List and a Vector of the same elements are equal when no element is
\* an atom and unequal when one is; two values of different types are
\* unequal.
ListVectorEqualButAtoms ==
    [][IsAtomAt(envs, "a") =>
          /\ \A s \in ElemSeqs :
                IF AtomFree(s)
                THEN SeqEqIsTrue(s)
                ELSE \A flip \in BOOLEAN :
                        line' = SeqEq(s, flip) => last'.ok /\ last'.val = False
          /\ \A flip \in BOOLEAN :
                line' = NestedEq(flip) => last'.ok /\ last'.val = True
          /\ \A x \in Operands : \A y \in Operands :
                (x.t # y.t /\ line' = Eq(x.ast, y.ast)) =>
                   last'.ok /\ last'.val = False
      ]_vars

(***************************************************************************)
(* SpecAtomEq: the REPL fed, in any order, with (def! a (atom 0)),         *)
(* (def! b a), (def! b (atom 0)), reset! of a and of b, and = on atoms.    *)
(***************************************************************************)
\* (def! b (atom 0))
DefB == Def("b", App(Symbol("atom"), <<Number(0)>>))
\* (= a a), (= a b), (= b a)
EqAA == Eq(Symbol("a"), Symbol("a"))
EqAB == Eq(Symbol("a"), Symbol("b"))
EqBA == Eq(Symbol("b"), Symbol("a"))
\* (let* (c (atom 0)) (= c c))
EqLocal == Let(<<Symbol("c"), App(Symbol("atom"), <<Number(0)>>)>>,
               Eq(Symbol("c"), Symbol("c")))

NextAtomEq ==
    \/ \E ast \in {DefAtom, ShareB, DefB} : Rep(ast)
    \/ \E k \in ShareVals : \E h \in Names : Rep(WriteVia(h, k))
    \/ \E ast \in {EqAA, EqAB, EqBA, EqLocal} : Rep(ast)

SpecAtomEq == InitRoot /\ [][NextAtomEq]_vars

\* C20: = on two Atoms is identity: (= a a) is true for every atom, and
\* two different atoms are unequal even when their contents are equal.
C20_AtomEqualityIsIdentity ==
    [][/\ (line' = EqAA /\ IsAtomAt(envs, "a")) => last'.ok /\ last'.val = True
       /\ line' = EqLocal => last'.ok /\ last'.val = True
       /\ (line' \in {EqAB, EqBA} /\ IsAtomAt(envs, "a") /\ IsAtomAt(envs, "b")) =>
             /\ last'.ok
             /\ last'.val = new_boolean(Cell(envs, "a") = Cell(envs, "b"))
      ]_vars

\* = on two Atoms is false, whether they are one atom or two.
AtomsAreNeverEqual ==
    [][/\ (line' = EqAA /\ IsAtomAt(envs, "a")) => last'.ok /\ last'.val = False
       /\ line' = EqLocal => last'.ok /\ last'.val = False
       /\ (line' \in {EqAB, EqBA} /\ IsAtomAt(envs, "a") /\ IsAtomAt(envs, "b")) =>
             last'.ok /\ last'.val = False
      ]_vars

(***************************************************************************)
(* SpecFnEq: the REPL fed, in any order, with definitions of an atom and   *)
(* of closures in the root environment, reset! of the atom, and = on two   *)
(* function values.                                                        *)
(***************************************************************************)
\* (def! f (fn* () k))
DefFn(k) == Def("f", Fn(List(<<>>), Number(k)))
\* (= + +), (= + -)
EqPlusPlus == Eq(Symbol("+"), Symbol("+"))
EqPlusMinus == Eq(Symbol("+"), Symbol("-"))
\* (= f f)
EqFF == Eq(Symbol("f"), Symbol("f"))
\* (= (fn* () 1) (fn* () 1)): two evaluations of fn* in one environment
EqTwoClosures == Eq(Fn(List(<<>>), Number(1)), Fn(List(<<>>), Number(1)))
\* (let* (x 1) (= (fn* () x) (fn* () x)))
EqTwoLocalClosures ==
    Let(<<Symbol("x"), Number(1)>>,
        Eq(Fn(List(<<>>), Symbol("x")), Fn(List(<<>>), Symbol("x"))))
\* (= (fn* () 1) (fn* () 2)), (= (fn* (x) 1) (fn* (y) 1))
EqBodiesDiffer == Eq(Fn(List(<<>>), Number(1)), Fn(List(<<>>), Number(2)))
EqParametersDiffer ==
    Eq(Fn(List(<<Symbol("x")>>), Number(1)), Fn(List(<<Symbol("y")>>), Number(1)))

\* = on one function object, and on two closures that differ in nothing
\* but their identity.
TwinClosureLines == {EqTwoClosures, EqTwoLocalClosures}
FnEqLines ==
    TwinClosureLines
        \cup {EqPlusPlus, EqFF, EqPlusMinus, EqBodiesDiffer, EqParametersDiffer}

IsFuncAt(h, name) == name \in DOMAIN h[1].data /\ is_function(h[1].data[name])

NextFnEq ==
    \/ Rep(DefAtom)
    \/ \E k \in 0..MaxCount : Rep(ResetA(k))
    \/ \E k \in OrderVals : Rep(DefFn(k))
    \/ \E ast \in FnEqLines : Rep(ast)

SpecFnEq == InitRoot /\ [][NextFnEq]_vars

\* C21: = on two function values returns a result and is identity: true
\* for one function object ((= + +), (= f f) for a closure f of the root
\* environment), false for two closures made by two evaluations of fn*
\* with the same parameters, body and defining environment.
C21_FunctionEqualityIsIdentity ==
    [][/\ line' = EqPlusPlus => last'.ok /\ last'.val = True
       /\ (line' = EqFF /\ IsFuncAt(envs, "f")) => last'.ok /\ last'.val = True
       /\ line' \in TwinClosureLines => last'.ok /\ last'.val = False
      ]_vars

\* = on one function object, or on two closures of one body, parameters
\* and environment, never returns true: the comparison of the environments
\* does not end (the process dies of stack overflow), unless the walk of
\* the root table meets an atom first, and then = returns false.  Functions
\* that differ in code pointer, body or parameters are unequal.
FunctionsAreNeverEqual ==
    [][/\ (line' \in {EqPlusPlus} \cup TwinClosureLines
               \/ (line' = EqFF /\ IsFuncAt(envs, "f"))) =>
             \/ ~last'.ok /\ last'.val = Panic("stack overflow") /\ halted'
             \/ last'.ok /\ last'.val = False /\ IsAtomAt(envs, "a")
       /\ line' \in {EqPlusMinus, EqBodiesDiffer, EqParametersDiffer} =>
             last'.ok /\ last'.val = False
      ]_vars

(***************************************************************************)
(* The tokenizer (tokenizer.rs).  A text is a string; Ch(text, i) is its   *)
(* i-th character, counted from 1.  A numeral with a fraction is read as   *)
(* the Number of its integer part with the digits of the fraction in s;    *)
(* the alphabets of the specifications hold no ".".  The backquote, which  *)
(* a TLA+ string cannot hold, is in no text of the model.                  *)
(***************************************************************************)
Ch(text, i) == SubSeq(text, i, i)
From(text, i) == SubSeq(text, i, Len(text))

\* [\s,]
Blank == {" ", "\t", "\n", "\r", ","}
\* The special characters of TOKEN_RE, but the backquote.
SpecialChars == {"[", "]", "{", "}", "(", ")", "'", "~", "^", "@"}
\* The characters that the last alternative of TOKEN_RE leaves out, but
\* the backquote.
NonSpecialStop == Blank \cup {"[", "]", "{", "}", "(", "'", "\"", ";", ")"}
Digits == {"0", "1", "2", "3", "4", "5", "6", "7", "8", "9"}

\* MalToken: type, and the number or the text of the token types that
\* carry one.
Token(type, n, s) == [type |-> type, n |-> n, s |-> s]
Plain(type) == Token(type, 0, "")

\* [\s,]*: the first index from i on that holds no blank.
RECURSIVE SkipBlanks(_, _)
SkipBlanks(text, i) ==
    IF i <= Len(text) /\ Ch(text, i) \in Blank THEN SkipBlanks(text, i + 1) ELSE i

\* "(?:\\.|[^\\"])*"?: the index of the last character of the match, j
\* being the next character to look at.  "." matches no newline.
RECURSIVE StringEnd(_, _)
StringEnd(text, j) ==
    IF j > Len(text)
    THEN j - 1
    ELSE IF Ch(text, j) = "\""
         THEN j
         ELSE IF Ch(text, j) = "\\"
              THEN IF j + 1 <= Len(text) /\ Ch(text, j + 1) # "\n"
                   THEN StringEnd(text, j + 2)
                   ELSE j - 1
              ELSE StringEnd(text, j + 1)

\* ;.*
RECURSIVE CommentEnd(_, _)
CommentEnd(text, j) ==
    IF j > Len(text) \/ Ch(text, j) = "\n" THEN j - 1 ELSE CommentEnd(text, j + 1)

\* [^\s\[\]{}('"`,;)]+
RECURSIVE NonSpecialEnd(_, _)
NonSpecialEnd(text, j) ==
    IF j > Len(text) \/ Ch(text, j) \in NonSpecialStop
    THEN j - 1
    ELSE NonSpecialEnd(text, j + 1)

\* The index of the last character of the token that TOKEN_RE captures at
\* i, the alternatives tried in the order of the expression.
TokenEnd(text, i) ==
    IF Ch(text, i) = "~" /\ i + 1 <= Len(text) /\ Ch(text, i + 1) = "@"
    THEN i + 1
    ELSE IF Ch(text, i) \in SpecialChars
         THEN i
         ELSE IF Ch(text, i) = "\""
              THEN StringEnd(text, i + 1)
              ELSE IF Ch(text, i) = ";"
                   THEN CommentEnd(text, i + 1)
                   ELSE NonSpecialEnd(text, i + 1)

MutUnescapeNothing(c) == c

\* unescape_char
unescape_char(c) == IF c = "n" THEN "\n" ELSE c

\* The loop of scan_string, j being the next character, acc the text so far.
RECURSIVE ScanStringFrom(_, _, _)
ScanStringFrom(text, j, acc) ==
    IF j > Len(text)
    THEN Err(Tokenizer("Expected '\"', got EOF"))
    ELSE IF Ch(text, j) = "\""
         THEN Ok(acc)
         ELSE IF Ch(text, j) = "\\"
              THEN IF j + 1 > Len(text)
                   THEN Err(Tokenizer("Expected '\"', got EOF"))
                   ELSE ScanStringFrom(text, j + 2, acc \o unescape_char(Ch(text, j + 1)))
              ELSE ScanStringFrom(text, j + 1, acc \o Ch(text, j))

scan_string(text) == ScanStringFrom(text, 2, "")

\* scan_keyword: text[1..]
scan_keyword(text) == Token("Keyword", 0, From(text, 2))

\* ^-?\d+\.?\d*$ on text from i on: digits, then an optional "." and digits.
RECURSIVE DigitsEnd(_, _)
DigitsEnd(text, i) ==
    IF i <= Len(text) /\ Ch(text, i) \in Digits THEN DigitsEnd(text, i + 1) ELSE i - 1
Unsigned(text) == IF Len(text) > 0 /\ Ch(text, 1) = "-" THEN From(text, 2) ELSE text
IsNumeral(text) ==
    /\ DigitsEnd(Unsigned(text), 1) >= 1
    /\ \/ DigitsEnd(Unsigned(text), 1) = Len(Unsigned(text))
       \/ /\ Ch(Unsigned(text), DigitsEnd(Unsigned(text), 1) + 1) = "."
          /\ DigitsEnd(Unsigned(text), DigitsEnd(Unsigned(text), 1) + 2) = Len(Unsigned(text))

DigitValue(c) == CHOOSE v \in 0..9 : ToString(v) = c
\* The value of the digits text[1..k].
RECURSIVE DigitsValue(_, _)
DigitsValue(text, k) ==
    IF k = 0 THEN 0 ELSE 10 * DigitsValue(text, k - 1) + DigitValue(Ch(text, k))
\* The digits of a fraction without the zeros at its end.
RECURSIVE Significant(_)
Significant(frac) ==
    IF Len(frac) > 0 /\ Ch(frac, Len(frac)) = "0"
    THEN Significant(SubSeq(frac, 1, Len(frac) - 1))
    ELSE frac
\* text.parse::<f64>()
ParseNumber(text) ==
    Token("Number",
          (IF Unsigned(text) = text THEN 1 ELSE -1)
              * DigitsValue(Unsigned(text), DigitsEnd(Unsigned(text), 1)),
          Significant(From(Unsigned(text), DigitsEnd(Unsigned(text), 1) + 2)))

\* scan_nonspecial_token
scan_nonspecial_token(text) ==
    IF text = "nil" THEN Plain("Nil")
    ELSE IF text = "true" THEN Plain("True")
    ELSE IF text = "false" THEN Plain("False")
    ELSE IF IsNumeral(text) THEN ParseNumber(text)
    ELSE Token("Symbol", 0, text)

\* What scan_token returns for a comment: Ok(None).
NoToken == Plain("None")

StrToken(r) == IF r.ok THEN Ok(Token("Str", 0, r.val)) ELSE r

\* scan_token, but its arm for the backquote.  There is no arm for '^': it
\* is scanned as a name.
scan_token(text) ==
    CASE Ch(text, 1) = "(" -> Ok(Plain("LParen"))
      [] Ch(text, 1) = ")" -> Ok(Plain("RParen"))
      [] Ch(text, 1) = "{" -> Ok(Plain("LCurly"))
      [] Ch(text, 1) = "}" -> Ok(Plain("RCurly"))
      [] Ch(text, 1) = "]" -> Ok(Plain("RBracket"))
      [] Ch(text, 1) = "[" -> Ok(Plain("LBracket"))
      [] Ch(text, 1) = "@" -> Ok(Plain("AtSign"))
      [] Ch(text, 1) = "'" -> Ok(Plain("SingleQuote"))
      [] Ch(text, 1) = "~" -> Ok(Plain(IF text = "~@" THEN "TildeAtSign" ELSE "Tilde"))
      [] Ch(text, 1) = ";" -> Ok(NoToken)
      [] Ch(text, 1) = "\"" -> StrToken(scan_string(text))
      [] Ch(text, 1) = ":" -> Ok(scan_keyword(text))
      [] OTHER -> Ok(scan_nonspecial_token(text))

\* The loop of tokenize over the captures of TOKEN_RE, from index i on.
RECURSIVE TokenizeFrom(_, _, _)
TokenizeStep(t, text, e, tokens) ==
    IF ~t.ok
    THEN t
    ELSE TokenizeFrom(text, e + 1, IF t.val = NoToken THEN tokens ELSE Append(tokens, t.val))
TokenizeAt(text, e, start, tokens) ==
    TokenizeStep(scan_token(SubSeq(text, start, e)), text, e, tokens)
TokenizeSkipped(text, start, tokens) ==
    IF start > Len(text)
    THEN Ok(tokens)
    ELSE TokenizeAt(text, TokenEnd(text, start), start, tokens)
TokenizeFrom(text, i, tokens) == TokenizeSkipped(text, SkipBlanks(text, i), tokens)

tokenize(program) == TokenizeFrom(program, 1, <<>>)

(***************************************************************************)
(* The reader (reader.rs).  pos is Reader::cur_pos + 1: the index of the   *)
(* token that peek() and next() return, None when it is beyond the tokens. *)
(***************************************************************************)
\* The result of a read_* function: Ok(value) with the position reached,
\* or Err(error).
Read(val, pos) == [ok |-> TRUE, val |-> val, pos |-> pos]
ReadErr(e) == [ok |-> FALSE, val |-> e, pos |-> 0]

RECURSIVE read_form(_, _)
RECURSIVE ReadSeqFrom(_, _, _, _)

\* read_atom
read_atom(tokens, pos) ==
    IF pos > Len(tokens)
    THEN ReadErr(Parser("Unexpected EOF"))
    ELSE CASE tokens[pos].type = "Nil" -> Read(Nil, pos + 1)
           [] tokens[pos].type = "True" -> Read(True, pos + 1)
           [] tokens[pos].type = "False" -> Read(False, pos + 1)
           [] tokens[pos].type = "Number" ->
                 Read(MV("Number", tokens[pos].n, tokens[pos].s, <<>>), pos + 1)
           [] tokens[pos].type = "Symbol" -> Read(Symbol(tokens[pos].s), pos + 1)
           [] tokens[pos].type = "Str" -> Read(Str(tokens[pos].s), pos + 1)
           [] tokens[pos].type = "Keyword" -> Read(Keyword(tokens[pos].s), pos + 1)
           [] OTHER -> ReadErr(Parser("Unexpected token"))

\* The loop of read_seq; r is the result of read_form for the next element.
ReadSeqStep(r, tokens, end_token, elems) ==
    IF r.ok THEN ReadSeqFrom(tokens, r.pos, end_token, Append(elems, r.val)) ELSE r

ReadSeqFrom(tokens, pos, end_token, elems) ==
    IF pos > Len(tokens)
    THEN ReadErr(Parser("Expected '" \o end_token \o "', got EOF"))
    ELSE IF tokens[pos].type = end_token
         THEN Read(elems, pos + 1)
         ELSE ReadSeqStep(read_form(tokens, pos), tokens, end_token, elems)

\* read_seq: reader.next() takes the opening token.
read_seq(tokens, pos, end_token) == ReadSeqFrom(tokens, pos + 1, end_token, <<>>)

SeqRead(t, r) == IF r.ok THEN Read(MV(t, 0, "", r.val), r.pos) ELSE r
read_list(tokens, pos) == SeqRead("List", read_seq(tokens, pos, "RParen"))
read_vector(tokens, pos) == SeqRead("Vector", read_seq(tokens, pos, "RBracket"))

\* Ok(MalValue::new(Map(MalMap::from_arguments(read_seq(..)?)?)))
MapRead(m, r) == IF m.ok THEN Read(m.val, r.pos) ELSE ReadErr(m.val)
MapOf(r) == IF r.ok THEN MapRead(from_arguments(r.val), r) ELSE r
read_map(tokens, pos) == MapOf(read_seq(tokens, pos, "RCurly"))

\* read_short_form: (name form)
ShortForm(name, r) == IF r.ok THEN Read(List(<<Symbol(name), r.val>>), r.pos) ELSE r
read_short_form(tokens, pos, name) == ShortForm(name, read_form(tokens, pos + 1))

\* read_with_meta: (with-meta arg meta), meta read first.
WithMeta(meta, arg) ==
    IF arg.ok THEN Read(List(<<Symbol("with-meta"), arg.val, meta.val>>), arg.pos) ELSE arg
MetaRead(meta, tokens) == IF meta.ok THEN WithMeta(meta, read_form(tokens, meta.pos)) ELSE meta
read_with_meta(tokens, pos) == MetaRead(read_form(tokens, pos + 1), tokens)

read_form(tokens, pos) ==
    IF pos > Len(tokens)
    THEN ReadErr(Parser("Unexpected EOF"))
    ELSE CASE tokens[pos].type = "LParen" -> read_list(tokens, pos)
           [] tokens[pos].type = "LBracket" -> read_vector(tokens, pos)
           [] tokens[pos].type = "LCurly" -> read_map(tokens, pos)
           [] tokens[pos].type = "AtSign" -> read_short_form(tokens, pos, "deref")
           [] tokens[pos].type = "SingleQuote" -> read_short_form(tokens, pos, "quote")
           [] tokens[pos].type = "BackTick" -> read_short_form(tokens, pos, "quasiquote")
           [] tokens[pos].type = "Tilde" -> read_short_form(tokens, pos, "unquote")
           [] tokens[pos].type = "TildeAtSign" ->
                 read_short_form(tokens, pos, "splice-unquote")
           [] tokens[pos].type = "Caret" -> read_with_meta(tokens, pos)
           [] OTHER -> read_atom(tokens, pos)

\* read_str after read_form(&mut reader)?: tokens may not remain.
ReadAll(r, tokens) ==
    IF ~r.ok
    THEN Err(r.val)
    ELSE IF r.pos <= Len(tokens)
         THEN Err(Parser("Expected EOF, found token"))
         ELSE Ok(r.val)

\* read_str from the tokens on
ReadTokens(t) ==
    IF ~t.ok
    THEN t
    ELSE IF t.val = <<>>
         THEN Err(EmptyProgram)
         ELSE ReadAll(read_form(t.val, 1), t.val)

read_str(program) == ReadTokens(tokenize(program))

(***************************************************************************)
(* SpecMap: MalMap::from_arguments applied to every sequence of at most    *)
(* MaxArgs values, read_str applied to every map literal of at most        *)
(* MaxItems items, and the REPL fed with the map literals that read_str    *)
(* accepts.                                                                *)
(***************************************************************************)
MaxArgs == 4
MaxItems == 3

MapArgs == {Str("a"), Keyword("a"), Number(1)}
ItemTexts == {":a", "\"a\"", "1", "(+ 1 2)"}

\* The sequences of at most n elements of S.
RECURSIVE SeqsOf(_, _)
SeqsOf(S, n) ==
    IF n = 0
    THEN {<<>>}
    ELSE SeqsOf(S, n - 1) \cup {Append(s, x) : s \in SeqsOf(S, n - 1), x \in S}

\* The texts of items, a blank between two.
RECURSIVE Joined(_)
Joined(items) ==
    IF Len(items) = 0
    THEN ""
    ELSE IF Len(items) = 1
         THEN items[1]
         ELSE items[1] \o " " \o Joined(Tail(items))

\* {items...}
MapText(items) == "{" \o Joined(items) \o "}"

FromArguments(arguments) ==
    /\ ~halted
    /\ last' = [op |-> "from_arguments", arguments |-> arguments,
                res |-> from_arguments(arguments)]
    /\ line' = Nil
    /\ UNCHANGED <<envs, atoms, written, halted>>

ReadMap(items) ==
    /\ ~halted
    /\ last' = [op |-> "read_str", items |-> items, res |-> read_str(MapText(items))]
    /\ line' = Nil
    /\ UNCHANGED <<envs, atoms, written, halted>>

\* rep on a map literal that read_str accepts
RepRead(r) == r.ok /\ Rep(r.val)

NextMap ==
    \/ \E arguments \in SeqsOf(MapArgs, MaxArgs) : FromArguments(arguments)
    \/ \E items \in SeqsOf(ItemTexts, MaxItems) : ReadMap(items)
    \/ \E items \in SeqsOf(ItemTexts, MaxItems) : RepRead(read_str(MapText(items)))

SpecMap == InitRoot /\ [][NextMap]_vars

\* The key/value sequence has odd length or holds, at a key position, a
\* value that is neither a Str nor a Keyword.
BadMapArguments(arguments) ==
    \/ Len(arguments) % 2 # 0
    \/ \E i \in 1..Len(arguments) : i % 2 = 1 /\ arguments[i].t \notin {"Str", "Keyword"}

KeysAreStrOrKeyword(m) ==
    m.t = "Map" /\ \A k \in MapKeys(m.l) : k.t \in {"Str", "Keyword"}

\* The value that read_str gives for the text of each item.
ItemValues(items) == [i \in 1..Len(items) |-> read_str(items[i]).val]

\* C22: building a Map from a key/value sequence fails with a Parser error
\* when the sequence has odd length or a key is neither a Str nor a
\* Keyword, and otherwise gives a Map whose keys are all Str or Keyword:
\* in from_arguments, in the reader, and in the evaluation of a map
\* literal.
C22_MapKeysAreStrOrKeyword ==
    /\ last.op = "from_arguments" =>
          IF BadMapArguments(last.arguments)
          THEN ~last.res.ok /\ last.res.val.t = "Parser"
          ELSE last.res.ok /\ KeysAreStrOrKeyword(last.res.val)
    /\ last.op = "read_str" =>
          IF BadMapArguments(ItemValues(last.items))
          THEN ~last.res.ok /\ last.res.val.t = "Parser"
          ELSE last.res.ok /\ KeysAreStrOrKeyword(last.res.val)
    /\ (last.op = "rep" /\ last.ok) => KeysAreStrOrKeyword(last.val)

\* The map literal {:a (+ 1 2)} has been read and evaluated.
C22_Witness ==
    /\ last.op = "rep"
    /\ last.ok
    /\ line = Map(<<Keyword("a"), App(Symbol("+"), <<Number(1), Number(2)>>)>>)
    /\ last.val = Map(<<Keyword("a"), Number(3)>>)

(***************************************************************************)
(* SpecNth: core::nth applied to every List and Vector of at most MaxNth   *)
(* elements (and to nil) with every index from -2 to MaxNth + 1.           *)
(***************************************************************************)
MaxNth == 3

\* The outcomes of `index as usize` for a negative f64: 0 (the cast
\* saturates, as the language defines it since Rust 1.45), or the value
\* modulo 2^64 (a compiler before that, where the cast is undefined),
\* for which 2^30 + n stands here: an index beyond every sequence.
Casts == {"saturating", "wrapping"}
AsUsize(n, cast) == IF n >= 0 THEN n ELSE IF cast = "saturating" THEN 0 ELSE 2^30 + n

\* core::nth: vec.get(index as usize).cloned().ok_or_else(..)
nth(args, cast) ==
    IF ~ArgCountEq(args, 2)
    THEN Err(RustFunctionError("Expected 2 arguments"))
    ELSE IF args[2].t # "Number"
         THEN Err(RustFunctionError("Argument must be a number"))
         ELSE IF args[1].t \in {"List", "Vector"}
              THEN IF AsUsize(args[2].n, cast) < Len(args[1].l)
                   THEN Ok(args[1].l[AsUsize(args[2].n, cast) + 1])
                   ELSE Err(RustFunctionError("nth: index out of range"))
              ELSE Err(RustFunctionError("Invalid argument"))

NthElems == {Number(7), Keyword("a")}
NthSeqs ==
    {List(s) : s \in SeqsOf(NthElems, MaxNth)} \cup {Vector(s) : s \in SeqsOf(NthElems, MaxNth)}
NthIndices == (-2)..(MaxNth + 1)

Nth(seq, i) ==
    /\ ~halted
    /\ \E cast \in Casts :
          last' = [op |-> "nth", seq |-> seq, i |-> i, res |-> nth(<<seq, Number(i)>>, cast)]
    /\ line' = Nil
    /\ UNCHANGED <<envs, atoms, written, halted>>

NextNth == \E seq \in NthSeqs \cup {Nil} : \E i \in NthIndices : Nth(seq, i)

SpecNth == InitRoot /\ [][NextNth]_vars

IsRustFunctionError(res) == ~res.ok /\ res.val.t = "RustFunction"

\* C23: (nth seq i) returns the element at index i when 0 <= i < length of
\* seq and fails with a RustFunction error for every other i, the negative
\* ones and the length included.
C23_NthOutOfRangeFails ==
    (last.op = "nth" /\ last.seq.t \in {"List", "Vector"}) =>
        IF 0 <= last.i /\ last.i < Len(last.seq.l)
        THEN last.res = Ok(last.seq.l[last.i + 1])
        ELSE IsRustFunctionError(last.res)

\* nth is as claimed for every index from 0 on; for a negative index it
\* fails, or returns the first element of a sequence that is not empty.
NthButNegative ==
    last.op = "nth" =>
        IF last.seq.t \notin {"List", "Vector"}
        THEN IsRustFunctionError(last.res)
        ELSE IF 0 <= last.i /\ last.i < Len(last.seq.l)
             THEN last.res = Ok(last.seq.l[last.i + 1])
             ELSE IF last.i >= 0 \/ Len(last.seq.l) = 0
                  THEN IsRustFunctionError(last.res)
                  ELSE IsRustFunctionError(last.res) \/ last.res = Ok(last.seq.l[1])

\* (nth (7 :a) -1) has returned 7.
NthNegativeReturnsFirst ==
    /\ last.op = "nth"
    /\ last.seq = List(<<Number(7), Keyword("a")>>)
    /\ last.i = -1
    /\ last.res = Ok(Number(7))


(***************************************************************************)
(* The loop of run_repl (step7_quote.rs) on the text of the lines.         *)
(***************************************************************************)
\* A line as readline() got it from the terminal.
Line(text) == MV("Line", 0, text, <<>>)

\* char::is_whitespace on the characters of the model's lines
White == {" ", "\n", "\t"}

\* str::trim
RECURSIVE Trim(_)
Trim(text) ==
    IF text = ""
    THEN ""
    ELSE IF Ch(text, 1) \in White
         THEN Trim(From(text, 2))
         ELSE IF Ch(text, Len(text)) \in White
              THEN Trim(SubSeq(text, 1, Len(text) - 1))
              ELSE text

\* rep(&line, env), r the result of read(s): an error of the reader is
\* returned by the ? before anything is evaluated.
RepRun(r) ==
    \E order \in HashOrders :
        IF r.ok
        THEN RepResult(eval(r.val, 1, St(envs, atoms, order), 1))
        ELSE RepResult(Res(FALSE, r.val, St(envs, atoms, order)))

\* One turn of the loop with Some(line): an empty line is not given to rep.
RunReplLine(text) ==
    /\ ~halted
    /\ line' = Line(text)
    /\ UNCHANGED written
    /\ IF Trim(text) = ""
       THEN /\ last' = [op |-> "skip", out |-> <<>>]
            /\ UNCHANGED <<envs, atoms, halted>>
       ELSE RepRun(read_str(Trim(text)))

\* One turn of the loop with None: readline() met the end of the input, or
\* another error of the terminal, which it prints.
Causes == {"Eof", "Interrupted"}

RunReplEnd(cause) ==
    /\ ~halted
    /\ halted' = TRUE
    /\ last' = [op |-> "end", cause |-> cause,
                out |-> IF cause = "Eof" THEN <<>> ELSE <<"Error: " \o cause>>]
    /\ line' = Nil
    /\ UNCHANGED <<envs, atoms, written>>

DefTexts ==
    {"(def! a 1)", "(def! a 2)", "(def! b (list a \"x\"))", "(def! b {:k a})"}
ValueTexts == {"a", "b", "(+ 1 2)", " :k ", "[1 \"a\\n\" nil]", "+", "(fn* () 1)"}
EmptyTexts == {"", "  ", ";c", " ; (def! a 1)"}
FailingTexts ==
    {"nosuch", "(1 2", "\"ab", "(+ 1 nil)", "(def! a", "1 2", "(1 2)", "{:k}",
     "(let* (a) a)"}
PanicTexts == {"((fn* (a & b) a))", "(= + +)", "(def! a (= a a))"}

NextLoop ==
    \/ \E text \in DefTexts : RunReplLine(text)
    \/ \E text \in ValueTexts : RunReplLine(text)
    \/ \E text \in EmptyTexts : RunReplLine(text)
    \/ \E text \in FailingTexts : RunReplLine(text)
    \/ \E text \in PanicTexts : RunReplLine(text)
    \/ \E cause \in Causes : RunReplEnd(cause)

SpecLoop == InitRoot /\ [][NextLoop]_vars

\* The names the root environment binds stay bound over the step.
BindingsStay == DOMAIN envs[1].data \subseteq DOMAIN envs'[1].data

\* The step is a turn of the loop on a line that is not empty.
LineTurn == ~halted /\ line'.t = "Line" /\ Trim(line'.s) # "" /\ last'.op = "rep"

\* What the turn printed is the result, "Error! " and a message, or
\* nothing when the error is EmptyProgram.
TurnPrinted ==
    IF last'.ok
    THEN Len(last'.out) = 1
    ELSE IF last'.val.t = "EmptyProgram"
         THEN last'.out = <<>>
         ELSE /\ Len(last'.out) = 1
              /\ Len(last'.out[1]) > 7
              /\ SubSeq(last'.out[1], 1, 7) = "Error! "

\* C24: every turn of the loop on a non-empty line prints the result or
\* "Error! <message>" (nothing for EmptyProgram), leaves the names of the
\* root environment bound, and goes on to the next line; the loop ends
\* only by the end of the input.
C24_LoopSurvivesEveryLine ==
    [][/\ LineTurn => (TurnPrinted /\ BindingsStay /\ ~halted')
       /\ (~halted /\ halted') => last'.op = "end"]_vars

\* The same for the lines that do not end the process, and with the end
\* of the loop by any None of readline().
LoopSurvivesUnlessPanic ==
    [][/\ (LineTurn /\ (last'.ok \/ last'.val.t # "Panic"))
            => (TurnPrinted /\ BindingsStay /\ ~halted')
       /\ (~halted /\ halted')
            => (last'.op = "end" \/ (last'.op = "rep" /\ ~last'.ok /\ last'.val.t = "Panic"))]_vars

\* What the lines whose result does not depend on earlier lines print.
Expected ==
    ("(def! a 1)" :> <<"1">>)
        @@ ("(+ 1 2)" :> <<"3">>)
        @@ (" :k " :> <<":k">>)
        @@ ("[1 \"a\\n\" nil]" :> <<"[1 \"a\\n\" nil]">>)
        @@ ("+" :> <<"#<rust_function>">>)
        @@ ("(fn* () 1)" :> <<"#<function>">>)
        @@ (";c" :> <<>>)
        @@ (" ; (def! a 1)" :> <<>>)
        @@ ("nosuch" :> <<"Error! 'nosuch' not found">>)
        @@ ("(1 2" :> <<"Error! Parser error: Expected 'RParen', got EOF">>)
        @@ ("\"ab" :> <<"Error! Tokenizer error: Expected '\"', got EOF">>)
        @@ ("(+ 1 nil)" :> <<"Error! Error when calling rust function: Argument must be a number">>)
        @@ ("1 2" :> <<"Error! Parser error: Expected EOF, found token">>)
        @@ ("((fn* (a & b) a))" :> <<>>)

LoopPrintsExpected ==
    (line.t = "Line" /\ line.s \in DOMAIN Expected /\ last.op = "rep")
        => last.out = Expected[line.s]

\* A line ended the process: nothing was printed for it and no line
\* is read after it.
LoopKilledByLine ==
    /\ halted
    /\ line = Line("((fn* (a & b) a))")
    /\ last.op = "rep"
    /\ last.out = <<>>
    /\ "a" \in DOMAIN envs[1].data

(***************************************************************************)
(* read_str on texts made of a few pieces, a blank between two.  No text   *)
(* holds a backquote.                                                      *)
(***************************************************************************)
MaxPieces == 2

CompleteForms == {"1", ":k", "(1 2)", "{:k 1}"}
Openers == {"(", "[", "{"}
OneFormMacros == {"'", "~", "~@", "@"}
Pieces == CompleteForms \cup Openers \cup OneFormMacros \cup {")", "^"}

ReadStr(pieces) ==
    /\ ~halted
    /\ last' = [op |-> "read_str", pieces |-> pieces, res |-> read_str(Joined(pieces))]
    /\ line' = Nil
    /\ UNCHANGED <<envs, atoms, written, halted>>

NextRead == \E pieces \in SeqsOf(Pieces, MaxPieces) : ReadStr(pieces)

SpecRead == InitRoot /\ [][NextRead]_vars

\* The position after the one complete form that starts at piece i, 0 when
\* there is none: a reader macro needs the form (the two forms, for ^)
\* after it, a list opened by ( ends at its ), and no piece closes a
\* vector or a map.
RECURSIVE FormEnd(_, _)
RECURSIVE ListEnd(_, _)
FormEnd(pieces, i) ==
    IF i = 0 \/ i > Len(pieces)
    THEN 0
    ELSE CASE pieces[i] \in CompleteForms -> i + 1
           [] pieces[i] \in OneFormMacros -> FormEnd(pieces, i + 1)
           [] pieces[i] = "^" -> FormEnd(pieces, FormEnd(pieces, i + 1))
           [] pieces[i] = "(" -> ListEnd(pieces, i + 1)
           [] OTHER -> 0

ListEnd(pieces, i) ==
    IF i = 0 \/ i > Len(pieces)
    THEN 0
    ELSE IF pieces[i] = ")" THEN i + 1 ELSE ListEnd(pieces, FormEnd(pieces, i))

\* The pieces are exactly one complete form.
OneForm(pieces) == FormEnd(pieces, 1) = Len(pieces) + 1

ReadOutcome(pieces, res) ==
    IF pieces = <<>>
    THEN res = Err(EmptyProgram)
    ELSE IF OneForm(pieces)
         THEN res.ok
         ELSE ~res.ok /\ res.val.t = "Parser"

\* C25: read_str returns a value only for exactly one complete form; with
\* no token it fails with EmptyProgram; with tokens left after a form, a
\* list, vector or map that is not closed, or a reader macro (' ~ ~@ @ ^)
\* without the forms it needs, it fails with a Parser error.
C25_ReadStrOneCompleteForm ==
    last.op = "read_str" => ReadOutcome(last.pieces, last.res)

\* The same for the texts without ^, which the tokenizer takes for a name.
ReadStrButCaret ==
    (last.op = "read_str" /\ \A i \in 1..Len(last.pieces) : last.pieces[i] # "^")
        => ReadOutcome(last.pieces, last.res)

\* ^ alone is read as the symbol ^.
CaretReadAsSymbol ==
    /\ last.op = "read_str"
    /\ last.pieces = <<"^">>
    /\ last.res = Ok(Symbol("^"))

\* Some outcomes of read_str.
ReadStrExamples ==
    /\ read_str("") = Err(EmptyProgram)
    /\ read_str("aa 123") = Err(Parser("Expected EOF, found token"))
    /\ read_str("(+ 1 x) (- 123 y)").val.t = "Parser"
    /\ read_str("@ (1 2)") = Ok(List(<<Symbol("deref"), List(<<Number(1), Number(2)>>)>>))
    /\ read_str("^a +").val.t = "Parser"
    /\ read_str("^a") = Err(Parser("Expected EOF, found token"))

(***************************************************************************)
(* pr_str in readable mode, then read_str.                                 *)
(***************************************************************************)
MaxStr == 3

\* backslash, double quote, newline, the letter n and the start of a comment
Alphabet == {"\\", "\"", "\n", "n", ";"}

RECURSIVE Texts(_, _)
Texts(S, n) ==
    IF n = 0 THEN {""} ELSE Texts(S, n - 1) \cup {s \o c : s \in Texts(S, n - 1), c \in S}

\* The names and keywords are those of tokens: scan_nonspecial_token and
\* scan_keyword made them from a text without blanks and delimiters.
RoundValues ==
    {Str(s) : s \in Texts(Alphabet, MaxStr)}
        \cup {Nil, True, False}
        \cup {Keyword(s) : s \in {"", "k", "n", "a\\n"}}
        \cup {Symbol(s) : s \in {"n", "a-b", "+", "^", "\\n", "nil?"}}

NoHeap == [atoms |-> <<>>, order |-> "order_a"]

ReadPrinted(printed) == IF printed.ok THEN read_str(printed.val) ELSE printed

RoundTrip(v) ==
    /\ ~halted
    /\ last' = [op |-> "round", v |-> v, printed |-> pr_str(v, TRUE, NoHeap, {}),
                res |-> ReadPrinted(pr_str(v, TRUE, NoHeap, {}))]
    /\ line' = Nil
    /\ UNCHANGED <<envs, atoms, written, halted>>

NextRound == \E v \in RoundValues : RoundTrip(v)

SpecRound == InitRoot /\ [][NextRound]_vars

\* C26: reading the text that pr_str makes in readable mode of a string
\* (over backslash, double quote, newline, n), of nil, true, false, of a
\* keyword or of a name gives the value back.
C26_PrintReadRoundTrip ==
    last.op = "round" => last.res = Ok(last.v)

\* The string of a backslash, an n, a newline and a double quote came back
\* from its text "\\n\n\"" (with the escapes written out).
C26_Witness ==
    /\ last.op = "round"
    /\ last.v = Str("\\n\"")
    /\ last.printed = Ok("\"\\\\n\\\"\"")
    /\ last.res = Ok(Str("\\n\""))

\* A string with a newline is printed with the two characters \ and n.
NewlineRoundTrip ==
    /\ last.op = "round"
    /\ last.v = Str("n\n")
    /\ last.printed = Ok("\"n\\n\"")
    /\ last.res = Ok(last.v)

(***************************************************************************)
(* def! whose expression fails (apply_special_form_def).                   *)
(***************************************************************************)
DefNames == {"a", "b"}

\* nosuch, (+ 1 nil), (throw 7), (let* (a 5) nosuch), (def! b nosuch) and
\* (do (def! a 3) nosuch): each fails, the last after it bound a.
FailingExprs ==
    {Symbol("nosuch"),
     App(Symbol("+"), <<Number(1), Nil>>),
     App(Symbol("throw"), <<Number(7)>>),
     Let(<<Symbol("a"), Number(5)>>, Symbol("nosuch")),
     Def("b", Symbol("nosuch")),
     Do(<<Def("a", Number(3)), Symbol("nosuch")>>)}

FailingDefs == {Def(s, e) : s \in DefNames, e \in FailingExprs}

NextDef ==
    \/ \E k \in DefVals : Rep(DefA(k))
    \/ Rep(Def("b", Symbol("a")))
    \/ \E s \in DefNames : Rep(Symbol(s))
    \/ \E ast \in FailingDefs : Rep(ast)

SpecDef == InitRoot /\ [][NextDef]_vars

\* The step is a line (def! s e) whose e failed.
DefFailed == ~halted /\ line' \in FailingDefs /\ last'.op = "rep" /\ ~last'.ok

\* The line returned the error of r and left the root environment with the
\* bindings of r.
AsEvaluationLeft(r) ==
    /\ ~r.ok
    /\ last'.val = r.val
    /\ envs'[1].data = r.st.envs[1].data

\* C27 as amended: when e of (def! s e) fails, the error of e is returned
\* and def! binds nothing: the environment is as the evaluation of e
\* alone leaves it, so s keeps its previous value, or stays undefined,
\* unless e itself bound s before it failed.
C27_FailedDefBindsNothing ==
    [][DefFailed =>
        \E order \in HashOrders :
            AsEvaluationLeft(eval(line'.l[3], 1, St(envs, atoms, order), 1))]_vars

\* C27 as stated: when e of (def! s e) fails, the error is returned and the
\* environment is left as it was.
C27_FailedDefLeavesEnvironment ==
    [][DefFailed => (last'.val.t # "Panic" /\ envs'[1].data = envs[1].data)]_vars

\* (def! a nosuch) failed with a bound to 2 before and after.
C27_Witness ==
    /\ line = Def("a", Symbol("nosuch"))
    /\ last.op = "rep"
    /\ ~last.ok
    /\ last.val = UndefinedSymbol("nosuch")
    /\ "a" \in DOMAIN envs[1].data
    /\ envs[1].data["a"] = Number(2)
    /\ "b" \notin DOMAIN envs[1].data

\* (def! b (do (def! a 3) nosuch)) failed and a is 3.
FailedDefReboundA ==
    /\ line = Def("b", Do(<<Def("a", Number(3)), Symbol("nosuch")>>))
    /\ last.op = "rep"
    /\ ~last.ok
    /\ envs[1].data["a"] = Number(3)
    /\ "b" \notin DOMAIN envs[1].data

(***************************************************************************)
(* swap! whose call fails (swap_atom).                                     *)
(***************************************************************************)
SwapNames == {"a", "b"}

\* (def! s (atom 0)) and (reset! s k)
DefAtomOf(s) == Def(s, App(Symbol("atom"), <<Number(0)>>))
ResetOf(s, k) == App(Symbol("reset!"), <<Symbol(s), Number(k)>>)

\* (swap! s f extra...)
SwapOf(s, f, extra) == App(Symbol("swap!"), <<Symbol(s), f>> \o extra)

\* f and the further arguments of a swap! whose call of f fails:
\* (fn* (n) nosuch), (fn* (n) (throw n)), throw, + with nil,
\* (fn* (n) (do (reset! a 9) nosuch)) and (fn* (n) (do (reset! b 9) (throw n))).
FailingCalls ==
    {<<Fn(List(<<Symbol("n")>>), Symbol("nosuch")), <<>>>>,
     <<Fn(List(<<Symbol("n")>>), App(Symbol("throw"), <<Symbol("n")>>)), <<>>>>,
     <<Symbol("throw"), <<>>>>,
     <<Symbol("+"), <<Nil>>>>,
     <<Fn(List(<<Symbol("n")>>), Do(<<ResetOf("a", 9), Symbol("nosuch")>>)), <<>>>>,
     <<Fn(List(<<Symbol("n")>>),
          Do(<<ResetOf("b", 9), App(Symbol("throw"), <<Symbol("n")>>)>>)), <<>>>>}

\* The swaps of an atom whose call fails.
CallFailingSwaps == {SwapOf(s, c[1], c[2]) : s \in SwapNames, c \in FailingCalls}

\* (swap! 1 inc), (swap! (list) inc), (swap! s 1), (swap! s :k) and (swap! s)
ShapeFailingSwaps ==
    {App(Symbol("swap!"), <<Number(1), Inc>>),
     App(Symbol("swap!"), <<App(Symbol("list"), <<>>), Inc>>)}
        \cup {SwapOf(s, x, <<>>) : s \in SwapNames, x \in {Number(1), Keyword("k")}}
        \cup {App(Symbol("swap!"), <<Symbol(s)>>) : s \in SwapNames}

\* (f (deref s) extra...): the call that (swap! s f extra...) makes
CallOf(swap) ==
    App(swap.l[3], <<App(Symbol("deref"), <<swap.l[2]>>)>> \o SubSeq(swap.l, 4, Len(swap.l)))

BothAtoms == \A s \in SwapNames : IsAtomAt(envs, s)

NextSwap ==
    \/ \E s \in SwapNames : ~IsAtomAt(envs, s) /\ Rep(DefAtomOf(s))
    \/ \E s \in SwapNames : \E k \in OrderVals : BothAtoms /\ Rep(ResetOf(s, k))
    \/ \E s \in SwapNames : BothAtoms /\ Rep(App(Symbol("deref"), <<Symbol(s)>>))
    \/ \E ast \in CallFailingSwaps : BothAtoms /\ Rep(ast)
    \/ \E ast \in ShapeFailingSwaps : BothAtoms /\ Rep(ast)

SpecSwap == InitRoot /\ [][NextSwap]_vars

\* The step is a line of swap! that failed.
SwapFailed(lines) == ~halted /\ line' \in lines /\ last'.op = "rep" /\ ~last'.ok

\* The line returned the error of r and left the cells as r left them.
AsCallLeft(r) ==
    /\ ~r.ok
    /\ last'.val = r.val
    /\ atoms' = r.st.atoms

\* C28 as amended: when the function given to swap! fails, swap! returns
\* its error and stores nothing: the atom holds what the call of the
\* function left in it, the value from before the call unless the function
\* itself changed the atom; when the first argument is not an atom or the
\* second is not a function, swap! returns a RustFunction error and no atom
\* changes.
C28_FailedSwapStoresNothing ==
    [][/\ SwapFailed(CallFailingSwaps) =>
            \E order \in HashOrders :
                AsCallLeft(eval(CallOf(line'), 1, St(envs, atoms, order), 1))
       /\ (~halted /\ line' \in ShapeFailingSwaps) =>
            /\ last'.op = "rep"
            /\ ~last'.ok
            /\ last'.val.t = "RustFunction"
            /\ atoms' = atoms]_vars

\* C28 as stated: when swap! fails, it returns the error and the atom
\* still holds the value it held before the call.
C28_FailedSwapLeavesAtom ==
    [][SwapFailed(CallFailingSwaps \cup ShapeFailingSwaps)
            => (last'.val.t # "Panic" /\ atoms' = atoms)]_vars

\* (swap! a (fn* (n) (throw n))) failed with the exception of the content 1
\* of a, and a still holds 1.
C28_Witness ==
    /\ line = SwapOf("a", Fn(List(<<Symbol("n")>>), App(Symbol("throw"), <<Symbol("n")>>)), <<>>)
    /\ last.op = "rep"
    /\ ~last.ok
    /\ last.val = Exception(Number(1))
    /\ atoms[envs[1].data["a"].n] = Number(1)

\* (swap! a (fn* (n) (do (reset! a 9) nosuch))) failed and a holds 9.
FailedSwapChangedAtom ==
    /\ line = SwapOf("a", Fn(List(<<Symbol("n")>>), Do(<<ResetOf("a", 9), Symbol("nosuch")>>)), <<>>)
    /\ last.op = "rep"
    /\ ~last.ok
    /\ last.val = UndefinedSymbol("nosuch")
    /\ atoms[envs[1].data["a"].n] = Number(9)

(***************************************************************************)
(* Lines that fail part-way (apply_special_form_do, eval_ast, rep).        *)
(***************************************************************************)
\* A form that fails after it has evaluated the forms of done.
Partial(ast, done) == [ast |-> ast, done |-> done]

Failing == {Symbol("nosuch"), App(Symbol("throw"), <<Number(1)>>)}

\* (do (def! x k) (reset! a k) e), (list (def! x k) e (def! y 1)),
\* (def! y (do (def! x k) e)), (let* (z (reset! a k)) e),
\* (swap! a (fn* (n) (do (reset! a k) e))), (do (swap! a (fn* (n) k)) e) and
\* ((fn* () (do (reset! a k) e))), e being a form that fails.
PartialForms ==
    UNION {{Partial(Do(<<DefX(k), ResetA(k), e>>), <<DefX(k), ResetA(k)>>),
            Partial(App(Symbol("list"), <<DefX(k), e, Def("y", Number(1))>>), <<DefX(k)>>),
            Partial(Def("y", Do(<<DefX(k), e>>)), <<DefX(k)>>),
            Partial(Let(<<Symbol("z"), ResetA(k)>>, e), <<ResetA(k)>>),
            Partial(SwapA(Fn(List(<<Symbol("n")>>), Do(<<ResetA(k), e>>))), <<ResetA(k)>>),
            Partial(Do(<<SwapA(Fn(List(<<Symbol("n")>>), Number(k))), e>>), <<ResetA(k)>>),
            Partial(App(Fn(List(<<>>), Do(<<ResetA(k), e>>)), <<>>), <<ResetA(k)>>)}
           : k \in DefVals, e \in Failing}

NextPartial ==
    \/ ~IsAtomAt(envs, "a") /\ Rep(DefAtom)
    \/ \E f \in PartialForms : IsAtomAt(envs, "a") /\ Rep(f.ast)
    \/ \E s \in {"x", "y"} : Rep(Symbol(s))
    \/ IsAtomAt(envs, "a") /\ Rep(DerefA)
    \/ \E s \in {"x", "y"} : Rep(Def(s, Number(0)))

SpecPartial == InitRoot /\ [][NextPartial]_vars

\* The line failed and left the bindings and the cells as r did, the
\* evaluation of the forms that were completed.
KeptAsDone(r) ==
    /\ r.ok
    /\ ~last'.ok
    /\ envs'[1].data = r.st.envs[1].data
    /\ atoms' = r.st.atoms

\* C29: when a line fails part-way, every def! binding and every reset! or
\* swap! update completed before the failing step stays, and the next line
\* sees it: a name then evaluates to the value bound, deref to the content.
C29_NoRollback ==
    [][/\ \A f \in PartialForms :
            (~halted /\ line' = f.ast /\ last'.op = "rep")
                => \E order \in HashOrders :
                      KeptAsDone(eval(Do(f.done \o <<Nil>>), 1, St(envs, atoms, order), 1))
       /\ \A s \in {"x", "y"} :
            (~halted /\ line' = Symbol(s) /\ last'.op = "rep" /\ s \in DOMAIN envs[1].data)
                => (last'.ok /\ last'.val = envs[1].data[s])
       /\ (~halted /\ line' = DerefA /\ last'.op = "rep")
            => (last'.ok /\ last'.val = ContentAt(envs, atoms, "a"))]_vars

\* (do (def! x 2) (reset! a 2) nosuch) failed; x is 2 and a holds 2.
C29_Witness ==
    /\ line = Do(<<DefX(2), ResetA(2), Symbol("nosuch")>>)
    /\ last.op = "rep"
    /\ ~last.ok
    /\ last.val = UndefinedSymbol("nosuch")
    /\ envs[1].data["x"] = Number(2)
    /\ ContentAt(envs, atoms, "a") = Number(2)

\* The line after it read x and got 2.
PartialSeenByNextLine ==
    /\ line = Symbol("x")
    /\ last.op = "rep"
    /\ last.ok
    /\ last.val = Number(2)
    /\ "y" \notin DOMAIN envs[1].data

(***************************************************************************)
(* Printing the result of a line whose atoms hold atoms (pr_str, print).   *)
(***************************************************************************)
\* 0, 1, a, b, (list a) and (list 1 b)
CellContents ==
    {Number(0), Number(1), Symbol("a"), Symbol("b"),
     App(Symbol("list"), <<Symbol("a")>>),
     App(Symbol("list"), <<Number(1), Symbol("b")>>)}

\* (reset! s e)
ResetTo(s, e) == App(Symbol("reset!"), <<Symbol(s), e>>)

\* s, (deref s), (list s "x"), {:k s} and (throw s)
PrintedForms(s) ==
    {Symbol(s), App(Symbol("deref"), <<Symbol(s)>>),
     App(Symbol("list"), <<Symbol(s), Str("x")>>),
     Map(<<Keyword("k"), Symbol(s)>>),
     App(Symbol("throw"), <<Symbol(s)>>)}

NextPrint ==
    \/ \E s \in SwapNames : ~IsAtomAt(envs, s) /\ Rep(DefAtomOf(s))
    \/ \E s \in SwapNames : \E e \in CellContents : BothAtoms /\ Rep(ResetTo(s, e))
    \/ \E s \in SwapNames : \E ast \in PrintedForms(s) : BothAtoms /\ Rep(ast)

SpecPrint == InitRoot /\ [][NextPrint]_vars

\* The process ended in pr_str.
PrintOverflowed == last.op = "rep" /\ ~last.ok /\ last.val = Panic("pr_str: stack overflow")

\* C30: pr_str returns a finite text for the result of every line, also
\* when an atom holds, directly or through a list, the atom itself.
C30_PrintingTerminates ==
    last.op = "rep" =>
        /\ ~PrintOverflowed
        /\ last.ok => Len(last.out) = 1

\* The cells that the value v names, at any depth of a list or a map.
AtomsIn(v) == {r.i : r \in {q \in RefsOf(v) : q.k = "atom"}}

\* The cells that pr_str reads when it prints the cells of S.
RECURSIVE PrintedCells(_, _)
PrintedCells(cells, S) ==
    IF S \cup UNION {AtomsIn(cells[i]) : i \in S} = S
    THEN S
    ELSE PrintedCells(cells, S \cup UNION {AtomsIn(cells[i]) : i \in S})

\* Some cell holds, directly or through lists and other cells, its own atom.
HoldsItself(cells) ==
    \E i \in DOMAIN cells : i \in PrintedCells(cells, AtomsIn(cells[i]))

\* pr_str fails only when a cell holds itself, and every line that
\* returned then printed one text.
PrintingTerminatesButCycles ==
    last.op = "rep" =>
        /\ PrintOverflowed => HoldsItself(atoms)
        /\ last.ok => Len(last.out) = 1

\* (reset! a a) ended the process: printing its result, the atom a, never
\* returns.
ResetToItselfOverflows ==
    /\ line = ResetTo("a", Symbol("a"))
    /\ PrintOverflowed
    /\ halted
    /\ last.out = <<>>
    /\ atoms[envs[1].data["a"].n] = envs[1].data["a"]

\* An atom that holds another atom is printed.
NestedAtomPrinted ==
    /\ line = Symbol("a")
    /\ last.op = "rep"
    /\ last.ok
    /\ last.out = <<"(atom (1 (atom 0)))">>
=============================================================================
